---- MODULE Spec2Model ----
(***************************************************************************)
(* lib-guitar-io: the audio stream engine (RtAudioDevice / AudioDevice)    *)
(* as a state machine over the RtAudio driver it wraps.                    *)
(*                                                                         *)
(* The repository holds two revisions of the engine's control flow:        *)
(*   "codes"      - src/src/RtAudioDevice.cpp and the PIMPL AudioDevice of *)
(*                  src/unnamed/part_003: the driver reports failures as   *)
(*                  RtAudioErrorType return codes;                         *)
(*   "exceptions" - src/src/AudioDevice.cpp: the driver reports failures   *)
(*                  by throwing RtAudioError, caught with try/catch.       *)
(* The variable `revision` is fixed at construction and selects which of   *)
(* the two is running.                                                     *)
(*                                                                         *)
(* The driver (RtAudio) is the environment.  The engine sees it through    *)
(* isStreamOpen(), isStreamRunning(), getErrorText() and the outcome of    *)
(* openStream/startStream/stopStream/closeStream, so the driver is the     *)
(* three variables streamOpen, streamRunning, errorText, and every driver  *)
(* call takes its outcome as an input chosen by the environment.           *)
(***************************************************************************)
EXTENDS Naturals, Integers, Sequences, FiniteSets, TLC

VARIABLES
    revision,       \* which revision of the engine this instance is
    streamOpen,     \* driver: rtAudio.isStreamOpen()
    streamRunning,  \* driver: rtAudio.isStreamRunning()
    errorText,      \* driver: rtAudio.getErrorText() / RtAudioError::getMessage()
    callback,       \* AudioCallback callback
    userData,       \* void *userData
    lastError,      \* std::string lastError
    inputParams,    \* RtAudio::StreamParameters inputParams
    outputParams,   \* RtAudio::StreamParameters outputParams
    hasInput,       \* bool hasInput
    hasOutput,      \* bool hasOutput
    op,             \* caller: the public method that returned last
    ret,            \* caller: what that method returned
    driverCalls,    \* caller: the driver calls that method made, in order
    pc,             \* caller: position in the Open/Start/Stop/Close scenario
    stream,         \* driver: the directions and channel counts the open stream
                    \* was opened with, and the Open call that opened it
    bridge,         \* driver thread: what the last RtAudioCallback did
    alive,          \* lifetime: the engine object has not been destroyed
    handles,        \* lifetime: the AudioDevice objects "source" and "target":
                    \* whether each exists, and its pImpl
    sampleRate,     \* SineWaveGenerator: double sampleRate
    frequency,      \* SineWaveGenerator: double frequency
    amplitude,      \* SineWaveGenerator: float amplitude
    currentPhase,   \* SineWaveGenerator: double currentPhase
    phaseIncrement, \* SineWaveGenerator: double phaseIncrement
    samples,        \* SineWaveGenerator: the buffer the last Generate filled
    started,        \* caller: Start has returned true, and since then neither
                    \* Stop has returned true nor Close has returned
    inCall,         \* caller thread: the method it is inside, and how far it
                    \* has got in it
    firstRun,       \* caller: the first Reset-then-Generate round and its result
    voices,         \* PolyphonicGenerator: std::array<SineWaveGenerator, 6> voices
    frequencies,    \* PolyphonicGenerator: std::array<double, 6> frequencies
    globalVolume,   \* PolyphonicGenerator: float globalVolume
    activeVoiceCount, \* PolyphonicGenerator: size_t activeVoiceCount
    bankCall,       \* caller: the last PolyphonicGenerator call, its arguments
                    \* and the buffer it left
    memory,         \* the float array the AudioMixer's spans are views of
    mixerCall       \* caller: the last AudioMixer call, its arguments and the
                    \* array before it

generatorVars == <<sampleRate, frequency, amplitude, currentPhase,
                   phaseIncrement, samples>>

bankVars == <<voices, frequencies, globalVolume, activeVoiceCount, bankCall>>

mixerVars == <<memory, mixerCall>>

componentVars == <<generatorVars, firstRun, bankVars, mixerVars>>

vars == <<revision, streamOpen, streamRunning, errorText, callback, userData,
          lastError, inputParams, outputParams, hasInput, hasOutput,
          op, ret, driverCalls, pc, stream, bridge, alive, handles, started, inCall,
          componentVars>>

\* What the caller of the engine's five methods never touches.
restVars == <<stream, bridge, alive, handles, started, inCall, componentVars>>

engineVars == <<callback, userData, lastError, inputParams, outputParams,
                hasInput, hasOutput>>

----------------------------------------------------------------------------
(* Bounds of the inputs the caller and the driver supply.                  *)

MaxChannels == 1

Revisions == {"codes", "exceptions"}
\* Device ids are opaque tokens: the default input device and another one.
Devices == {0, 1}
Channels == 0..MaxChannels
Configs == [inputChannels : Channels, outputChannels : Channels]
\* "null" is an empty std::function.
Callbacks == {"null", "cbA"}
UserPtrs == {"nullptr", "ptrA"}
DriverMessages ==
    {"openStream: error", "startStream: error", "startStream: warning",
     "stopStream: error"}
DriverOutcomes == {"ok", "error"}

----------------------------------------------------------------------------
(* Driver (RtAudio) as the engine calls it.  Each operator gives the       *)
(* driver state after the call: [open, running, text, result].  The text   *)
(* the driver reports names the call that failed.                          *)

DriverState == [open |-> streamOpen, running |-> streamRunning,
                text |-> errorText, result |-> "ok"]

\* rtAudio.openStream(...): success opens a stopped stream; a rejected
\* configuration leaves no stream and sets the error text.
RtOpenStream(drv) ==
    IF drv = "ok" /\ ~streamOpen
    THEN [open |-> TRUE, running |-> FALSE, text |-> errorText, result |-> "ok"]
    ELSE [open |-> streamOpen, running |-> streamRunning,
          text |-> "openStream: error", result |-> "error"]

\* rtAudio.startStream(): success runs the open stream; a failure leaves it
\* as it was and sets the error text.  On a stream that is already running
\* the driver changes nothing and reports a warning.
RtStartStream(drv) ==
    IF streamRunning \/ ~streamOpen
    THEN [open |-> streamOpen, running |-> streamRunning,
          text |-> "startStream: warning", result |-> "warning"]
    ELSE IF drv = "ok"
    THEN [open |-> TRUE, running |-> TRUE, text |-> errorText, result |-> "ok"]
    ELSE [open |-> streamOpen, running |-> streamRunning,
          text |-> "startStream: error", result |-> "error"]

\* How a driver result reaches the engine: a return code other than
\* RTAUDIO_NO_ERROR in the "codes" revision, a thrown RtAudioError in the
\* "exceptions" revision (a warning is reported but not thrown).
Failed(d) ==
    IF revision = "codes" THEN d.result # "ok" ELSE d.result = "error"

\* rtAudio.stopStream(): success stops the stream; on a failure the stream
\* has halted or is still running, as the backend decides (halted).
RtStopStream(drv, halted) ==
    IF drv = "ok"
    THEN [open |-> streamOpen, running |-> FALSE, text |-> errorText,
          result |-> "ok"]
    ELSE [open |-> streamOpen, running |-> streamRunning /\ ~halted,
          text |-> "stopStream: error", result |-> "error"]

\* rtAudio.closeStream(): void; releases the stream, stopping it if needed.
RtCloseStream(d) ==
    [open |-> FALSE, running |-> FALSE, text |-> d.text, result |-> "ok"]

\* rtAudio.getDefaultInputDevice()
getDefaultInputDevice == 0

SetDriver(d) ==
    /\ streamOpen' = d.open
    /\ streamRunning' = d.running
    /\ errorText' = d.text

----------------------------------------------------------------------------
(* Queries.                                                                *)

\* Mutation of IsOpen: reports a running stream as not open.
IsOpen_StoppedOnly == streamOpen /\ ~streamRunning

IsOpen == streamOpen

IsRunning == streamRunning

GetLastError == lastError

\* The lifecycle state of the design, read off the two queries.
EngineState ==
    IF ~IsOpen THEN "Closed" ELSE IF IsRunning THEN "Running" ELSE "Open"

----------------------------------------------------------------------------
(* Construction.                                                           *)

DefaultStreamParameters == [deviceId |-> 0, nChannels |-> 0, firstChannel |-> 0]

EngineInit ==
    /\ revision \in Revisions
    /\ streamOpen = FALSE
    /\ streamRunning = FALSE
    /\ errorText = ""
    /\ callback = "null"
    /\ userData = "nullptr"
    /\ lastError = ""
    /\ inputParams = DefaultStreamParameters
    /\ outputParams = DefaultStreamParameters
    /\ hasInput = FALSE
    /\ hasOutput = FALSE
    /\ op = "init"
    /\ ret = "none"
    /\ driverCalls = <<>>
    /\ pc = 0

\* No stream is open at the driver.
NoStream ==
    [inputChannels |-> 0, outputChannels |-> 0,
     config |-> [inputChannels |-> 0, outputChannels |-> 0],
     userPtr |-> "nullptr"]

\* The driver thread has not entered RtAudioCallback in the last step.
NoBridgeCall == [kind |-> "none"]

\* Frequencies and sample rates are in Hz, amplitudes in tenths, phases and
\* phase increments in units of 2*pi/TwoPi radians.
TwoPi == 32
DefaultSampleRate == 48000
DefaultFrequency == 440
DefaultAmplitude == 5

\* SineWaveGenerator::SineWaveGenerator(double sampleRate): the member
\* initialisers, and the sample rate from the argument.
SineWaveGenerator(rate) ==
    /\ sampleRate = rate
    /\ frequency = DefaultFrequency
    /\ amplitude = DefaultAmplitude
    /\ currentPhase = 0
    /\ phaseIncrement = 0
    /\ samples = <<>>

\* No call has been made yet (of the component the variable belongs to).
NoCall == [op |-> "none"]

\* No voice bank has been constructed.
NoVoiceBank ==
    /\ voices = <<>>
    /\ frequencies = <<>>
    /\ globalVolume = 0
    /\ activeVoiceCount = 0
    /\ bankCall = NoCall

\* No buffer has been handed to the mixer.
NoBuffers ==
    /\ memory = <<>>
    /\ mixerCall = NoCall

\* The caller thread is outside the engine's methods.
NotCalling == [method |-> "none"]

\* AudioDevice::AudioDevice() : pImpl(std::make_unique<Impl>()): one
\* object, which owns the engine; "target" does not exist yet.
OneDevice ==
    [source |-> [life |-> "live", pImpl |-> "impl"],
     target |-> [life |-> "none", pImpl |-> "nullptr"]]

\* The engine, its driver and its caller before the first call.
DeviceInit ==
    /\ EngineInit
    /\ stream = NoStream
    /\ bridge = NoBridgeCall
    /\ alive = TRUE
    /\ handles = OneDevice
    /\ started = FALSE
    /\ inCall = NotCalling

Init ==
    /\ DeviceInit
    /\ SineWaveGenerator(DefaultSampleRate)
    /\ firstRun = NoCall
    /\ NoVoiceBank
    /\ NoBuffers

----------------------------------------------------------------------------
(* The public methods.  Each leaves `op` and `pc` to the caller.           *)

\* Mutation of Open: the "already open" check is missing.
Open_NoGuard(deviceId, config, userCallback, userPtr, drv) ==
    LET d == RtOpenStream(drv) IN
    /\ callback' = userCallback
    /\ userData' = userPtr
    /\ IF config.inputChannels > 0
       THEN /\ inputParams' = [deviceId |-> deviceId,
                               nChannels |-> config.inputChannels,
                               firstChannel |-> 0]
            /\ hasInput' = TRUE
       ELSE UNCHANGED <<inputParams, hasInput>>
    /\ IF config.outputChannels > 0
       THEN /\ outputParams' = [deviceId |-> deviceId,
                                nChannels |-> config.outputChannels,
                                firstChannel |-> 0]
            /\ hasOutput' = TRUE
       ELSE UNCHANGED <<outputParams, hasOutput>>
    /\ SetDriver(d)
    /\ driverCalls' = <<"openStream">>
    /\ IF Failed(d)
       THEN lastError' = d.text /\ ret' = "false"
       ELSE UNCHANGED lastError /\ ret' = "true"

Open(deviceId, config, userCallback, userPtr, drv) ==
    IF IsOpen
    THEN /\ lastError' = "Device already open"
         /\ ret' = "false"
         /\ driverCalls' = <<>>
         /\ UNCHANGED <<streamOpen, streamRunning, errorText, callback,
                        userData, inputParams, outputParams, hasInput,
                        hasOutput>>
    ELSE LET d == RtOpenStream(drv) IN
         /\ callback' = userCallback
         /\ userData' = userPtr
         /\ IF config.inputChannels > 0
            THEN /\ inputParams' = [deviceId |-> deviceId,
                                    nChannels |-> config.inputChannels,
                                    firstChannel |-> 0]
                 /\ hasInput' = TRUE
            ELSE UNCHANGED <<inputParams, hasInput>>
         /\ IF config.outputChannels > 0
            THEN /\ outputParams' = [deviceId |-> deviceId,
                                     nChannels |-> config.outputChannels,
                                     firstChannel |-> 0]
                 /\ hasOutput' = TRUE
            ELSE UNCHANGED <<outputParams, hasOutput>>
         /\ SetDriver(d)
         /\ driverCalls' = <<"openStream">>
         /\ IF Failed(d)
            THEN lastError' = d.text /\ ret' = "false"
            ELSE UNCHANGED lastError /\ ret' = "true"

\* Mutation of OpenDefault: the device id passed on is not the default
\* input device's.
OpenDefault_WrongDevice(config, userCallback, userPtr, drv) ==
    LET defaultDevice == getDefaultInputDevice + 1 IN
    Open(defaultDevice, config, userCallback, userPtr, drv)

OpenDefault(config, userCallback, userPtr, drv) ==
    LET defaultDevice == getDefaultInputDevice IN
    Open(defaultDevice, config, userCallback, userPtr, drv)

\* Mutation of Start: the "not open" check is missing.
Start_NoGuard(drv) ==
    LET d == RtStartStream(drv) IN
    /\ SetDriver(d)
    /\ driverCalls' = <<"startStream">>
    /\ IF Failed(d)
       THEN lastError' = d.text /\ ret' = "false"
       ELSE UNCHANGED lastError /\ ret' = "true"
    /\ UNCHANGED <<callback, userData, inputParams, outputParams,
                   hasInput, hasOutput>>

\* Mutation of Start: a driver failure is returned but its message is not
\* recorded.
Start_NoRecord(drv) ==
    IF ~IsOpen
    THEN /\ lastError' = "Device not open"
         /\ ret' = "false"
         /\ driverCalls' = <<>>
         /\ UNCHANGED <<streamOpen, streamRunning, errorText>>
         /\ UNCHANGED <<callback, userData, inputParams, outputParams,
                        hasInput, hasOutput>>
    ELSE LET d == RtStartStream(drv) IN
         /\ SetDriver(d)
         /\ driverCalls' = <<"startStream">>
         /\ ret' = IF Failed(d) THEN "false" ELSE "true"
         /\ UNCHANGED <<lastError, callback, userData, inputParams,
                        outputParams, hasInput, hasOutput>>

Start(drv) ==
    IF ~IsOpen
    THEN /\ lastError' = "Device not open"
         /\ ret' = "false"
         /\ driverCalls' = <<>>
         /\ UNCHANGED <<streamOpen, streamRunning, errorText>>
         /\ UNCHANGED <<callback, userData, inputParams, outputParams,
                        hasInput, hasOutput>>
    ELSE LET d == RtStartStream(drv) IN
         /\ SetDriver(d)
         /\ driverCalls' = <<"startStream">>
         /\ IF Failed(d)
            THEN lastError' = d.text /\ ret' = "false"
            ELSE UNCHANGED lastError /\ ret' = "true"
         /\ UNCHANGED <<callback, userData, inputParams, outputParams,
                        hasInput, hasOutput>>

\* Mutation of Stop: the "not running" check is missing.
Stop_NoGuard(drv, halted) ==
    LET d == RtStopStream(drv, halted) IN
    /\ SetDriver(d)
    /\ driverCalls' = <<"stopStream">>
    /\ IF Failed(d)
       THEN lastError' = d.text /\ ret' = "false"
       ELSE UNCHANGED lastError /\ ret' = "true"
    /\ UNCHANGED <<callback, userData, inputParams, outputParams,
                   hasInput, hasOutput>>

\* Mutation of Stop: the check is inverted (IsRunning() for !IsRunning()).
Stop_InvertedGuard(drv, halted) ==
    IF IsRunning
    THEN /\ lastError' = "Stream not running"
         /\ ret' = "false"
         /\ driverCalls' = <<>>
         /\ UNCHANGED <<streamOpen, streamRunning, errorText>>
         /\ UNCHANGED <<callback, userData, inputParams, outputParams,
                        hasInput, hasOutput>>
    ELSE LET d == RtStopStream(drv, halted) IN
         /\ SetDriver(d)
         /\ driverCalls' = <<"stopStream">>
         /\ IF Failed(d)
            THEN lastError' = d.text /\ ret' = "false"
            ELSE UNCHANGED lastError /\ ret' = "true"
         /\ UNCHANGED <<callback, userData, inputParams, outputParams,
                        hasInput, hasOutput>>

\* Mutation of Stop: a driver failure is returned but its message is not
\* recorded.
Stop_NoRecord(drv, halted) ==
    IF ~IsRunning
    THEN /\ lastError' = "Stream not running"
         /\ ret' = "false"
         /\ driverCalls' = <<>>
         /\ UNCHANGED <<streamOpen, streamRunning, errorText>>
         /\ UNCHANGED <<callback, userData, inputParams, outputParams,
                        hasInput, hasOutput>>
    ELSE LET d == RtStopStream(drv, halted) IN
         /\ SetDriver(d)
         /\ driverCalls' = <<"stopStream">>
         /\ ret' = IF Failed(d) THEN "false" ELSE "true"
         /\ UNCHANGED <<lastError, callback, userData, inputParams,
                        outputParams, hasInput, hasOutput>>

Stop(drv, halted) ==
    IF ~IsRunning
    THEN /\ lastError' = "Stream not running"
         /\ ret' = "false"
         /\ driverCalls' = <<>>
         /\ UNCHANGED <<streamOpen, streamRunning, errorText>>
         /\ UNCHANGED <<callback, userData, inputParams, outputParams,
                        hasInput, hasOutput>>
    ELSE LET d == RtStopStream(drv, halted) IN
         /\ SetDriver(d)
         /\ driverCalls' = <<"stopStream">>
         /\ IF Failed(d)
            THEN lastError' = d.text /\ ret' = "false"
            ELSE UNCHANGED lastError /\ ret' = "true"
         /\ UNCHANGED <<callback, userData, inputParams, outputParams,
                        hasInput, hasOutput>>

Close(drv, halted) ==
    /\ IF IsOpen
       THEN IF IsRunning
            THEN LET s == RtStopStream(drv, halted) IN
                 IF revision = "exceptions" /\ Failed(s)
                 THEN \* stopStream() threw: the catch block is entered and
                      \* closeStream() is never reached
                      /\ SetDriver(s)
                      /\ driverCalls' = <<"stopStream">>
                 ELSE /\ SetDriver(RtCloseStream(s))
                      /\ driverCalls' = <<"stopStream", "closeStream">>
            ELSE /\ SetDriver(RtCloseStream(DriverState))
                 /\ driverCalls' = <<"closeStream">>
       ELSE /\ UNCHANGED <<streamOpen, streamRunning, errorText>>
            /\ driverCalls' = <<>>
    /\ hasInput' = FALSE
    /\ hasOutput' = FALSE
    /\ ret' = "void"
    /\ UNCHANGED <<callback, userData, lastError, inputParams, outputParams>>

----------------------------------------------------------------------------
(* The bridge: the static RtAudioCallback the driver thread calls for      *)
(* every buffer of a running stream.  outputBuffer and inputBuffer are     *)
(* "nullptr" or "buffer"; context is the void *userData the driver hands   *)
(* back ("this", or "nullptr"); result is what the user callback returns   *)
(* if it is called.  `bridge` records the call: kind "stop" when the user  *)
(* callback was not called, "span" when it was called with two views (the  *)
(* lengths are recorded), "raw" when it was called with the two raw        *)
(* pointers and the frame count.                                           *)

\* Length of the view over a buffer.
SpanLength(buffer, nFrames, has, params) ==
    IF buffer # "nullptr"
    THEN LET channels == IF has THEN params.nChannels ELSE 1 IN
         nFrames * channels
    ELSE 0

\* Mutation of RtAudioCallback: the user callback's result is reduced to
\* continue (0) or stop (1), and the callback is called even when empty.
RtAudioCallback_Unchecked(outputBuffer, inputBuffer, nFrames, context, result) ==
    /\ bridge' = [kind |-> "raw", context |-> context,
                  input |-> inputBuffer, output |-> outputBuffer,
                  frames |-> nFrames, userData |-> userData,
                  result |-> result,
                  returned |-> IF result = 0 THEN 0 ELSE 1]
    /\ ret' = "int"
    /\ driverCalls' = <<>>
    /\ UNCHANGED <<streamOpen, streamRunning, errorText, engineVars>>

\* Mutation of RtAudioCallback: the user callback's result is dropped and
\* the bridge tells the driver to continue.
RtAudioCallback_AlwaysContinue(outputBuffer, inputBuffer, nFrames, context, result) ==
    /\ IF context = "nullptr" \/ callback = "null"
       THEN bridge' = [kind |-> "stop", context |-> context, returned |-> 1]
       ELSE bridge' = [kind |-> "raw", context |-> context,
                       input |-> inputBuffer, output |-> outputBuffer,
                       frames |-> nFrames, userData |-> userData,
                       result |-> result, returned |-> 0]
    /\ ret' = "int"
    /\ driverCalls' = <<>>
    /\ UNCHANGED <<streamOpen, streamRunning, errorText, engineVars>>

RtAudioCallback(outputBuffer, inputBuffer, nFrames, context, result) ==
    /\ IF context = "nullptr" \/ callback = "null"
       THEN bridge' = [kind |-> "stop", context |-> context, returned |-> 1]
       ELSE IF revision = "codes"
       THEN bridge' = [kind |-> "span", context |-> context,
                       input |-> SpanLength(inputBuffer, nFrames,
                                            hasInput, inputParams),
                       output |-> SpanLength(outputBuffer, nFrames,
                                             hasOutput, outputParams),
                       frames |-> nFrames, userData |-> userData,
                       result |-> result, returned |-> result]
       ELSE bridge' = [kind |-> "raw", context |-> context,
                       input |-> inputBuffer, output |-> outputBuffer,
                       frames |-> nFrames, userData |-> userData,
                       result |-> result, returned |-> result]
    /\ ret' = "int"
    /\ driverCalls' = <<>>
    /\ UNCHANGED <<streamOpen, streamRunning, errorText, engineVars>>

----------------------------------------------------------------------------
(* Destruction: the destructor body calls Close(), then the members are    *)
(* destroyed; the RtAudio member's destructor closes a stream that is      *)
(* still open.                                                             *)

\* The driver after the calls Close() makes.
AfterClose(drv, halted) ==
    IF IsOpen
    THEN IF IsRunning
         THEN LET s == RtStopStream(drv, halted) IN
              IF revision = "exceptions" /\ Failed(s)
              THEN s
              ELSE RtCloseStream(s)
         ELSE RtCloseStream(DriverState)
    ELSE DriverState

\* The driver calls Close() makes.
CloseCalls(drv, halted) ==
    IF IsOpen
    THEN IF IsRunning
         THEN IF revision = "exceptions" /\ Failed(RtStopStream(drv, halted))
              THEN <<"stopStream">>
              ELSE <<"stopStream", "closeStream">>
         ELSE <<"closeStream">>
    ELSE <<>>

\* Mutation of Destroy: the RtAudio member is not destroyed.
Destroy_KeepsDriver(drv, halted) ==
    /\ SetDriver(AfterClose(drv, halted))
    /\ driverCalls' = CloseCalls(drv, halted)
    /\ hasInput' = FALSE
    /\ hasOutput' = FALSE
    /\ alive' = FALSE
    /\ ret' = "void"
    /\ UNCHANGED <<callback, userData, lastError, inputParams, outputParams>>

Destroy(drv, halted) ==
    LET closed == AfterClose(drv, halted) IN
    /\ SetDriver(IF closed.open THEN RtCloseStream(closed) ELSE closed)
    /\ driverCalls' = CloseCalls(drv, halted) \o <<"~RtAudio">>
    /\ hasInput' = FALSE
    /\ hasOutput' = FALSE
    /\ alive' = FALSE
    /\ ret' = "void"
    /\ UNCHANGED <<callback, userData, lastError, inputParams, outputParams>>

----------------------------------------------------------------------------
(* The caller: any method at any time, against a driver that may fail.     *)

CallOpen(outcomes) ==
    \E deviceId \in Devices, config \in Configs, userCallback \in Callbacks,
       userPtr \in UserPtrs, drv \in outcomes :
        /\ Open(deviceId, config, userCallback, userPtr, drv)
        /\ op' = "Open"
        /\ UNCHANGED revision

CallOpenDefault(outcomes) ==
    \E config \in Configs, userCallback \in Callbacks, userPtr \in UserPtrs,
       drv \in outcomes :
        /\ OpenDefault(config, userCallback, userPtr, drv)
        /\ op' = "OpenDefault"
        /\ UNCHANGED revision

CallStart(outcomes) ==
    \E drv \in outcomes :
        /\ Start(drv)
        /\ op' = "Start"
        /\ UNCHANGED revision

CallStop(outcomes) ==
    \E drv \in outcomes, halted \in BOOLEAN :
        /\ Stop(drv, halted)
        /\ op' = "Stop"
        /\ UNCHANGED revision

CallClose(outcomes) ==
    \E drv \in outcomes, halted \in BOOLEAN :
        /\ Close(drv, halted)
        /\ op' = "Close"
        /\ UNCHANGED revision

OpenAction == CallOpen(DriverOutcomes) /\ UNCHANGED <<pc, restVars>>

OpenDefaultAction == CallOpenDefault(DriverOutcomes) /\ UNCHANGED <<pc, restVars>>

StartAction == CallStart(DriverOutcomes) /\ UNCHANGED <<pc, restVars>>

StopAction == CallStop(DriverOutcomes) /\ UNCHANGED <<pc, restVars>>

CloseAction == CallClose(DriverOutcomes) /\ UNCHANGED <<pc, restVars>>

Next ==
    \/ OpenAction
    \/ OpenDefaultAction
    \/ StartAction
    \/ StopAction
    \/ CloseAction

Spec == Init /\ [][Next]_vars

----------------------------------------------------------------------------
(* The caller of the Open/Start/Stop/Close scenario (TEST OpenClose and    *)
(* the usage example), against a healthy driver that accepts every         *)
(* request.  pc counts the steps done; after Close it starts over.         *)

HealthyDriver == {"ok"}

ScenarioOpen ==
    /\ pc \in {0, 4}
    /\ CallOpen(HealthyDriver) \/ CallOpenDefault(HealthyDriver)
    /\ pc' = 1
    /\ UNCHANGED restVars

ScenarioStart ==
    /\ pc = 1
    /\ CallStart(HealthyDriver)
    /\ pc' = 2
    /\ UNCHANGED restVars

ScenarioStop ==
    /\ pc = 2
    /\ CallStop(HealthyDriver)
    /\ pc' = 3
    /\ UNCHANGED restVars

ScenarioClose ==
    /\ pc = 3
    /\ CallClose(HealthyDriver)
    /\ pc' = 4
    /\ UNCHANGED restVars

NextScenario ==
    \/ ScenarioOpen
    \/ ScenarioStart
    \/ ScenarioStop
    \/ ScenarioClose

SpecScenario == Init /\ [][NextScenario]_vars

----------------------------------------------------------------------------
(* Start, Stop and Close as the driver thread sees them.  A method that    *)
(* reaches the driver on a running stream is not one step: the driver      *)
(* thread may deliver a buffer, or stop the stream, between the method's   *)
(* check, its driver calls and its return.  `inCall` is the caller         *)
(* thread's position; `op`, `ret` and `driverCalls` change when the method *)
(* returns.  Open runs while no stream is open, and the paths of the       *)
(* three methods that reach no driver call on a running stream run while   *)
(* the driver thread has nothing to do: they stay one step.                *)

driverVars == <<streamOpen, streamRunning, errorText>>

\* Start(): the IsOpen() check.  On a closed engine Start returns at once.
StartCheck ==
    /\ inCall = NotCalling
    /\ IF ~IsOpen
       THEN CallStart(DriverOutcomes) /\ UNCHANGED inCall
       ELSE /\ inCall' = [method |-> "Start", at |-> "startStream"]
            /\ UNCHANGED <<revision, driverVars, engineVars, op, ret,
                           driverCalls>>

\* Start(): rtAudio.startStream().  From here the stream may be running.
StartStream ==
    /\ inCall = [method |-> "Start", at |-> "startStream"]
    /\ \E drv \in DriverOutcomes :
           LET d == RtStartStream(drv) IN
           /\ SetDriver(d)
           /\ inCall' = [method |-> "Start", at |-> "return",
                         failed |-> Failed(d), text |-> d.text]
    /\ UNCHANGED <<revision, engineVars, op, ret, driverCalls>>

\* Start(): the test of the result and the return.
StartReturn ==
    /\ inCall.method = "Start" /\ inCall.at = "return"
    /\ IF inCall.failed
       THEN /\ lastError' = IF revision = "codes" THEN errorText
                            ELSE inCall.text
            /\ ret' = "false"
       ELSE UNCHANGED lastError /\ ret' = "true"
    /\ driverCalls' = <<"startStream">>
    /\ op' = "Start"
    /\ inCall' = NotCalling
    /\ UNCHANGED <<revision, driverVars, callback, userData, inputParams,
                   outputParams, hasInput, hasOutput>>

\* Stop(): the IsRunning() check.  On a stopped stream Stop returns at once.
StopCheck ==
    /\ inCall = NotCalling
    /\ IF ~IsRunning
       THEN CallStop(DriverOutcomes) /\ UNCHANGED inCall
       ELSE /\ inCall' = [method |-> "Stop", at |-> "stopStream"]
            /\ UNCHANGED <<revision, driverVars, engineVars, op, ret,
                           driverCalls>>

\* Stop(): rtAudio.stopStream(), on the stream as it is by now.
StopStream ==
    /\ inCall = [method |-> "Stop", at |-> "stopStream"]
    /\ \E drv \in DriverOutcomes, halted \in BOOLEAN :
           LET d == RtStopStream(drv, halted) IN
           /\ SetDriver(d)
           /\ inCall' = [method |-> "Stop", at |-> "return",
                         failed |-> Failed(d), text |-> d.text]
    /\ UNCHANGED <<revision, engineVars, op, ret, driverCalls>>

\* Stop(): the test of the result and the return.
StopReturn ==
    /\ inCall.method = "Stop" /\ inCall.at = "return"
    /\ IF inCall.failed
       THEN /\ lastError' = IF revision = "codes" THEN errorText
                            ELSE inCall.text
            /\ ret' = "false"
       ELSE UNCHANGED lastError /\ ret' = "true"
    /\ driverCalls' = <<"stopStream">>
    /\ op' = "Stop"
    /\ inCall' = NotCalling
    /\ UNCHANGED <<revision, driverVars, callback, userData, inputParams,
                   outputParams, hasInput, hasOutput>>

\* Close(): the IsOpen() and IsRunning() checks.  On a closed engine, or on
\* a stopped stream, Close runs to its return.
CloseCheck ==
    /\ inCall = NotCalling
    /\ IF IsOpen /\ IsRunning
       THEN /\ inCall' = [method |-> "Close", at |-> "stopStream"]
            /\ UNCHANGED <<revision, driverVars, engineVars, op, ret,
                           driverCalls>>
       ELSE CallClose(DriverOutcomes) /\ UNCHANGED inCall

\* Close(): rtAudio.stopStream().  In the "exceptions" revision a failure
\* is thrown past closeStream().
CloseStopStream ==
    /\ inCall = [method |-> "Close", at |-> "stopStream"]
    /\ \E drv \in DriverOutcomes, halted \in BOOLEAN :
           LET s == RtStopStream(drv, halted) IN
           /\ SetDriver(s)
           /\ inCall' = [method |-> "Close", at |-> "closeStream",
                         thrown |-> revision = "exceptions" /\ Failed(s)]
    /\ UNCHANGED <<revision, engineVars, op, ret, driverCalls>>

\* Close(): rtAudio.closeStream() unless stopStream() threw, then the two
\* flags and the return.  After closeStream() the driver thread is gone;
\* when it is skipped the bridge that may run is the one of the
\* "exceptions" revision, which does not read the flags.
CloseFinish ==
    /\ inCall.method = "Close" /\ inCall.at = "closeStream"
    /\ IF inCall.thrown
       THEN /\ UNCHANGED driverVars
            /\ driverCalls' = <<"stopStream">>
       ELSE /\ SetDriver(RtCloseStream(DriverState))
            /\ driverCalls' = <<"stopStream", "closeStream">>
    /\ hasInput' = FALSE
    /\ hasOutput' = FALSE
    /\ ret' = "void"
    /\ op' = "Close"
    /\ inCall' = NotCalling
    /\ UNCHANGED <<revision, callback, userData, lastError, inputParams,
                   outputParams>>

\* The method the caller was in has returned in this step.
Returned == inCall' = NotCalling

----------------------------------------------------------------------------
(* The caller thread and the driver thread together.  The caller opens     *)
(* the default device; while the stream runs the driver calls the bridge   *)
(* with one frame or with MaxFrames frames.  `stream` keeps what the       *)
(* stream was opened with; `bridge` is cleared by every return of a        *)
(* method.                                                                 *)

MaxFrames == 2

Contexts == {"this", "nullptr"}
\* What the user callback may return: 0 continues, anything else stops.
CallbackResults == {0, 2}

\* The stream after a call of Open with this config and user pointer.
OpenedStream(config, userPtr) ==
    IF driverCalls' = <<"openStream">> /\ ret' = "true"
    THEN [inputChannels |-> IF hasInput' THEN inputParams'.nChannels ELSE 0,
          outputChannels |-> IF hasOutput' THEN outputParams'.nChannels ELSE 0,
          config |-> config, userPtr |-> userPtr]
    ELSE IF streamOpen' THEN stream ELSE NoStream

KeptStream == IF streamOpen' THEN stream ELSE NoStream

BridgeOpenDefault ==
    /\ inCall = NotCalling
    /\ \E config \in Configs, userCallback \in Callbacks,
          userPtr \in UserPtrs, drv \in DriverOutcomes :
           /\ OpenDefault(config, userCallback, userPtr, drv)
           /\ stream' = OpenedStream(config, userPtr)
    /\ op' = "OpenDefault"
    /\ bridge' = NoBridgeCall
    /\ UNCHANGED <<revision, pc, alive, handles, started, inCall, componentVars>>

BridgeStart ==
    /\ \/ StartCheck
       \/ StartStream
       \/ StartReturn
    /\ stream' = KeptStream
    /\ bridge' = IF Returned THEN NoBridgeCall ELSE bridge
    /\ started' = IF Returned /\ ret' = "true" THEN TRUE ELSE started
    /\ UNCHANGED <<pc, alive, handles, componentVars>>

BridgeStop ==
    /\ \/ StopCheck
       \/ StopStream
       \/ StopReturn
    /\ stream' = KeptStream
    /\ bridge' = IF Returned THEN NoBridgeCall ELSE bridge
    /\ started' = IF Returned /\ ret' = "true" THEN FALSE ELSE started
    /\ UNCHANGED <<pc, alive, handles, componentVars>>

BridgeClose ==
    /\ \/ CloseCheck
       \/ CloseStopStream
       \/ CloseFinish
    /\ stream' = KeptStream
    /\ bridge' = IF Returned THEN NoBridgeCall ELSE bridge
    /\ started' = IF Returned THEN FALSE ELSE started
    /\ UNCHANGED <<pc, alive, handles, componentVars>>

\* The driver thread: one buffer of the running stream.  A direction the
\* stream was opened without has no buffer.
DriverCallback ==
    /\ streamRunning
    /\ \E nFrames \in {1, MaxFrames}, context \in Contexts,
          result \in CallbackResults :
           RtAudioCallback(
               IF stream.outputChannels > 0 THEN "buffer" ELSE "nullptr",
               IF stream.inputChannels > 0 THEN "buffer" ELSE "nullptr",
               nFrames, context, result)
    /\ op' = "RtAudioCallback"
    /\ UNCHANGED <<revision, pc, stream, alive, handles, started, inCall, componentVars>>

NextBridge ==
    \/ BridgeOpenDefault
    \/ BridgeStart
    \/ BridgeStop
    \/ BridgeClose
    \/ DriverCallback

SpecBridge == Init /\ [][NextBridge]_vars

----------------------------------------------------------------------------
(* What Open asks of the driver.  Every Open call that reaches the driver  *)
(* is kept in `stream`, whether the driver accepts it or not: the config   *)
(* of the call and the channel counts of the two parameter blocks handed   *)
(* to openStream (0 for a null pointer).                                   *)

RequestedStream(config, userPtr) ==
    IF driverCalls' = <<"openStream">>
    THEN [inputChannels |-> IF hasInput' THEN inputParams'.nChannels ELSE 0,
          outputChannels |-> IF hasOutput' THEN outputParams'.nChannels ELSE 0,
          config |-> config, userPtr |-> userPtr]
    ELSE stream

DirectionsOpen ==
    /\ \E deviceId \in Devices, config \in Configs,
          userCallback \in Callbacks, userPtr \in UserPtrs,
          drv \in DriverOutcomes :
           /\ Open(deviceId, config, userCallback, userPtr, drv)
           /\ stream' = RequestedStream(config, userPtr)
    /\ op' = "Open"
    /\ UNCHANGED <<revision, pc, bridge, alive, handles, started, inCall, componentVars>>

DirectionsClose ==
    /\ CallClose(DriverOutcomes)
    /\ UNCHANGED <<pc, stream, bridge, alive, handles, started, inCall, componentVars>>

NextDirections ==
    \/ DirectionsOpen
    \/ DirectionsClose

SpecDirections == Init /\ [][NextDirections]_vars

----------------------------------------------------------------------------
(* The stop request.  The user callback's documentation says "0 to         *)
(* continue, non-zero to stop stream": the bridge hands the value to the   *)
(* driver, and the driver stops the stream on its own thread before it     *)
(* asks for another buffer.  Here `pc` is the driver thread's position:    *)
(* 0 delivering buffers, 1 a bridge call has returned nonzero and the      *)
(* stream is still running, 2 the driver has stopped the stream on that    *)
(* request and Start has not restarted it.                                 *)

Delivering == 0

StopRequested == 1

StoppedOnRequest == 2

\* The driver thread's position after a call on the caller's thread.
AfterCall ==
    IF pc = StopRequested
    THEN IF streamRunning' THEN StopRequested ELSE Delivering
    ELSE IF pc = StoppedOnRequest
    THEN IF streamRunning' \/ ~streamOpen' THEN Delivering
         ELSE StoppedOnRequest
    ELSE Delivering

\* Streams of one channel, in either direction: the channel counts and
\* the frame count play no part in the stop request.
RequestConfigs == {c \in Configs : c.inputChannels + c.outputChannels = 1}

RequestOpenDefault ==
    /\ inCall = NotCalling
    /\ \E config \in RequestConfigs, userCallback \in Callbacks,
          drv \in DriverOutcomes :
           /\ OpenDefault(config, userCallback, "ptrA", drv)
           /\ stream' = OpenedStream(config, "ptrA")
    /\ op' = "OpenDefault"
    /\ bridge' = NoBridgeCall
    /\ pc' = AfterCall
    /\ UNCHANGED <<revision, alive, handles, started, inCall, componentVars>>

RequestStart ==
    /\ \/ StartCheck
       \/ StartStream
       \/ StartReturn
    /\ stream' = KeptStream
    /\ bridge' = IF Returned THEN NoBridgeCall ELSE bridge
    /\ started' = IF Returned /\ ret' = "true" THEN TRUE ELSE started
    /\ pc' = AfterCall
    /\ UNCHANGED <<alive, handles, componentVars>>

RequestStop ==
    /\ \/ StopCheck
       \/ StopStream
       \/ StopReturn
    /\ stream' = KeptStream
    /\ bridge' = IF Returned THEN NoBridgeCall ELSE bridge
    /\ started' = IF Returned /\ ret' = "true" THEN FALSE ELSE started
    /\ pc' = AfterCall
    /\ UNCHANGED <<alive, handles, componentVars>>

RequestClose ==
    /\ \/ CloseCheck
       \/ CloseStopStream
       \/ CloseFinish
    /\ stream' = KeptStream
    /\ bridge' = IF Returned THEN NoBridgeCall ELSE bridge
    /\ started' = IF Returned THEN FALSE ELSE started
    /\ pc' = AfterCall
    /\ UNCHANGED <<alive, handles, componentVars>>

\* The driver thread: one buffer of the running stream, unless a stop has
\* been requested.
RequestCallback ==
    /\ streamRunning
    /\ pc = Delivering
    /\ \E context \in Contexts, result \in CallbackResults :
           RtAudioCallback(
               IF stream.outputChannels > 0 THEN "buffer" ELSE "nullptr",
               IF stream.inputChannels > 0 THEN "buffer" ELSE "nullptr",
               1, context, result)
    /\ op' = "RtAudioCallback"
    /\ pc' = IF bridge'.returned # 0 THEN StopRequested ELSE Delivering
    /\ UNCHANGED <<revision, stream, alive, handles, started, inCall, componentVars>>

\* The driver thread: the stream is stopped on the bridge's request.  The
\* stream stays open.
DriverStops ==
    /\ streamRunning
    /\ pc = StopRequested
    /\ streamRunning' = FALSE
    /\ pc' = StoppedOnRequest
    /\ op' = "driverStop"
    /\ ret' = "none"
    /\ driverCalls' = <<>>
    /\ bridge' = NoBridgeCall
    /\ UNCHANGED <<revision, streamOpen, errorText, engineVars, stream,
                   alive, handles, started, inCall, componentVars>>

NextRequest ==
    \/ RequestOpenDefault
    \/ RequestStart
    \/ RequestStop
    \/ RequestClose
    \/ RequestCallback
    \/ DriverStops

\* The driver acts on the request before it waits for another buffer.
SpecRequest == Init /\ [][NextRequest]_vars /\ WF_vars(DriverStops)

----------------------------------------------------------------------------
(* The engine's lifetime: the five methods while the object is alive,      *)
(* then its destructor.                                                    *)

LiveOpen == alive /\ OpenAction

LiveOpenDefault == alive /\ OpenDefaultAction

LiveStart == alive /\ StartAction

LiveStop == alive /\ StopAction

LiveClose == alive /\ CloseAction

DestroyAction ==
    /\ alive
    /\ \E drv \in DriverOutcomes, halted \in BOOLEAN : Destroy(drv, halted)
    /\ op' = "~AudioDevice"
    /\ UNCHANGED <<revision, pc, stream, bridge, handles, started, inCall,
                   componentVars>>

NextLifetime ==
    \/ LiveOpen
    \/ LiveOpenDefault
    \/ LiveStart
    \/ LiveStop
    \/ LiveClose
    \/ DestroyAction

SpecLifetime == Init /\ [][NextLifetime]_vars

----------------------------------------------------------------------------
(* Moves of the PIMPL AudioDevice.  The move constructor and the move      *)
(* assignment are defaulted: they move the std::unique_ptr<Impl>, which    *)
(* leaves the source's pImpl null.  Every method, the destructor's Close() *)
(* included, starts with pImpl->...; through a null pImpl that is          *)
(* undefined behaviour, of which two outcomes are kept: the process is     *)
(* killed, or the call returns.  "impl" is the engine of this module,      *)
(* "idle" an engine of its own that the target was constructed with and    *)
(* never opened.                                                           *)

Handles == {"source", "target"}

\* What a method called through a null pImpl may come to.
NullDereference == {"null pImpl: killed", "null pImpl: returned"}

MovedFromMethods == {"Close", "IsOpen", "IsRunning", "~AudioDevice"}

Owns(x) == handles[x].life = "live" /\ handles[x].pImpl = "impl"

MovedFrom(x) == handles[x].life = "live" /\ handles[x].pImpl = "nullptr"

\* Nothing of the engine, its driver or the components changes.
EngineUntouched ==
    UNCHANGED <<revision, streamOpen, streamRunning, errorText, engineVars,
                pc, stream, bridge, alive, started, inCall, componentVars>>

\* The owner's calls.
OwnerOpenDefault == (\E x \in Handles : Owns(x)) /\ LiveOpenDefault

OwnerStart == (\E x \in Handles : Owns(x)) /\ LiveStart

\* AudioDevice target;
ConstructTarget ==
    /\ handles.target.life = "none"
    /\ \E x \in Handles : handles[x].life = "live"
    /\ handles' = [handles EXCEPT !.target = [life |-> "live", pImpl |-> "idle"]]
    /\ op' = "AudioDevice" /\ ret' = "void" /\ driverCalls' = <<>>
    /\ EngineUntouched

\* AudioDevice target(std::move(source));
MoveConstruct ==
    /\ handles.target.life = "none"
    /\ handles.source.life = "live"
    /\ handles' = [source |-> [life |-> "live", pImpl |-> "nullptr"],
                   target |-> [life |-> "live",
                               pImpl |-> handles.source.pImpl]]
    /\ op' = "AudioDevice(AudioDevice&&)" /\ ret' = "void"
    /\ driverCalls' = <<>>
    /\ EngineUntouched

\* target = std::move(source); the target's own engine is destroyed.
MoveAssign ==
    /\ handles.target.life = "live" /\ handles.target.pImpl = "idle"
    /\ handles.source.life = "live"
    /\ handles' = [source |-> [life |-> "live", pImpl |-> "nullptr"],
                   target |-> [life |-> "live",
                               pImpl |-> handles.source.pImpl]]
    /\ op' = "operator=(AudioDevice&&)" /\ ret' = "void"
    /\ driverCalls' = <<>>
    /\ EngineUntouched

\* Close(), IsOpen(), IsRunning() or the destructor on a moved-from object.
MovedFromCall ==
    /\ \E x \in Handles, method \in MovedFromMethods,
          outcome \in NullDereference :
           /\ MovedFrom(x)
           /\ op' = method
           /\ ret' = outcome
           /\ handles' =
                  IF outcome = "null pImpl: killed"
                  THEN [y \in Handles |->
                           [handles[y] EXCEPT !.life =
                               IF @ = "live" THEN "killed" ELSE @]]
                  ELSE IF method = "~AudioDevice"
                  THEN [handles EXCEPT ![x].life = "destroyed"]
                  ELSE handles
    /\ driverCalls' = <<>>
    /\ EngineUntouched

\* The destructor of the object that owns the engine.
DestroyOwner ==
    /\ alive
    /\ \E x \in Handles :
           /\ Owns(x)
           /\ handles' = [handles EXCEPT ![x].life = "destroyed"]
    /\ \E drv \in DriverOutcomes, halted \in BOOLEAN : Destroy(drv, halted)
    /\ op' = "~AudioDevice"
    /\ UNCHANGED <<revision, pc, stream, bridge, started, inCall, componentVars>>

NextMove ==
    \/ OwnerOpenDefault
    \/ OwnerStart
    \/ ConstructTarget
    \/ MoveConstruct
    \/ MoveAssign
    \/ MovedFromCall
    \/ DestroyOwner

SpecMove == Init /\ [][NextMove]_vars

----------------------------------------------------------------------------
(* SineWaveGenerator.  Arithmetic is exact: the frequencies and sample     *)
(* rates below make every phase increment a whole number of phase units.   *)
(* A sample is the record [carry, amp, phase] standing for                 *)
(* carry + amp * sin(phase).                                               *)

MaxSamples == 3

SampleRates == {1760, 3520}
Frequencies == {0, 440, 770, 1650}
Amplitudes == {0, 5, 10}
\* What a buffer element may hold before Generate.
PriorSamples == {0, 1}
Buffers == UNION {[1..n -> PriorSamples] : n \in 0..MaxSamples}

UpdateIncrement(freq, rate) == (TwoPi * freq) \div rate

SetFrequency(freq) ==
    /\ frequency' = freq
    /\ phaseIncrement' = UpdateIncrement(freq, sampleRate)
    /\ UNCHANGED <<sampleRate, amplitude, currentPhase>>

SetAmplitude(amp) ==
    /\ amplitude' = amp
    /\ UNCHANGED <<sampleRate, frequency, currentPhase, phaseIncrement>>

SetSampleRate(rate) ==
    /\ sampleRate' = rate
    /\ phaseIncrement' = UpdateIncrement(frequency, rate)
    /\ UNCHANGED <<frequency, amplitude, currentPhase>>

\* Mutation of Advance: the phase is never wrapped.
Advance_NoWrap(phase) == phase + phaseIncrement

\* One sample's step of the phase accumulator.
Advance(phase) ==
    LET next == phase + phaseIncrement IN
    IF next >= TwoPi THEN next - TwoPi ELSE next

\* The accumulator after n samples.
RECURSIVE PhaseAfter(_, _)
PhaseAfter(phase, n) ==
    IF n = 0 THEN phase ELSE Advance(PhaseAfter(phase, n - 1))

Generate(buffer, accumulate) ==
    /\ samples' = [i \in 1..Len(buffer) |->
                     [carry |-> IF accumulate THEN buffer[i] ELSE 0,
                      amp |-> amplitude,
                      phase |-> PhaseAfter(currentPhase, i - 1)]]
    /\ currentPhase' = PhaseAfter(currentPhase, Len(buffer))
    /\ UNCHANGED <<sampleRate, frequency, amplitude, phaseIncrement>>

\* Mutation of Reset: the phase is left where it is.
Reset_KeepsPhase ==
    UNCHANGED <<sampleRate, frequency, amplitude, phaseIncrement, currentPhase>>

Reset ==
    /\ currentPhase' = 0
    /\ UNCHANGED <<sampleRate, frequency, amplitude, phaseIncrement>>

\* The generator's user.  Every frequency it sets is below half the sample
\* rate, and it lowers the sample rate only to more than twice the
\* frequency held.  `samples` is the buffer written by the last step.
deviceVars == <<revision, streamOpen, streamRunning, errorText, engineVars,
                driverCalls, pc, stream, bridge, alive, handles>>

\* What the SineWaveGenerator's methods never touch.
outsideGenerator == <<deviceVars, started, inCall, firstRun, bankVars, mixerVars>>

SetFrequencyAction ==
    /\ \E freq \in Frequencies : 2 * freq < sampleRate /\ SetFrequency(freq)
    /\ op' = "SetFrequency" /\ ret' = "void" /\ samples' = <<>>
    /\ UNCHANGED outsideGenerator

SetAmplitudeAction ==
    /\ \E amp \in Amplitudes : SetAmplitude(amp)
    /\ op' = "SetAmplitude" /\ ret' = "void" /\ samples' = <<>>
    /\ UNCHANGED outsideGenerator

SetSampleRateAction ==
    /\ \E rate \in SampleRates : 2 * frequency < rate /\ SetSampleRate(rate)
    /\ op' = "SetSampleRate" /\ ret' = "void" /\ samples' = <<>>
    /\ UNCHANGED outsideGenerator

GenerateAction ==
    /\ \E buffer \in Buffers, accumulate \in BOOLEAN :
           Generate(buffer, accumulate)
    /\ op' = "Generate" /\ ret' = "void"
    /\ UNCHANGED outsideGenerator

ResetAction ==
    /\ Reset
    /\ op' = "Reset" /\ ret' = "void" /\ samples' = <<>>
    /\ UNCHANGED outsideGenerator

\* The components' specifications leave the engine as constructed.
IdleDevice ==
    /\ DeviceInit
    /\ revision = "codes"

InitGenerator ==
    /\ IdleDevice
    /\ \E rate \in SampleRates : SineWaveGenerator(rate)
    /\ firstRun = NoCall
    /\ NoVoiceBank
    /\ NoBuffers

NextGenerator ==
    \/ SetFrequencyAction
    \/ SetAmplitudeAction
    \/ SetSampleRateAction
    \/ GenerateAction
    \/ ResetAction

SpecGenerator == InitGenerator /\ [][NextGenerator]_vars

----------------------------------------------------------------------------
(* PolyphonicGenerator: six SineWaveGenerator voices mixed into one        *)
(* buffer.  A voice is the record of a SineWaveGenerator's members.  An    *)
(* amplitude is the record [volume, count] standing for                    *)
(* volume / sqrt(count), volume in tenths; a buffer element is the record  *)
(* [carry, terms] standing for carry + the sum of amp * sin(phase) over    *)
(* its terms, in the order they were added.                                *)

MAX_VOICES == 6
DefaultGlobalVolume == 5
FullAmplitude == 10

VoiceIds == 0..(MAX_VOICES - 1)

Amp(volume, count) ==
    IF volume = 0 THEN [volume |-> 0, count |-> 1]
    ELSE [volume |-> volume, count |-> count]

\* A default-constructed element of std::array<SineWaveGenerator, 6>.
VoiceDefault ==
    [sampleRate |-> DefaultSampleRate, frequency |-> DefaultFrequency,
     amplitude |-> Amp(DefaultAmplitude, 1), currentPhase |-> 0,
     phaseIncrement |-> 0]

VoiceSetSampleRate(voice, rate) ==
    [voice EXCEPT !.sampleRate = rate,
                  !.phaseIncrement = UpdateIncrement(voice.frequency, rate)]

\* Mutation of VoiceSetFrequency: the new tone starts at phase 0.
VoiceSetFrequency_RestartsPhase(voice, freq) ==
    [voice EXCEPT !.frequency = freq,
                  !.phaseIncrement = UpdateIncrement(freq, voice.sampleRate),
                  !.currentPhase = 0]

VoiceSetFrequency(voice, freq) ==
    [voice EXCEPT !.frequency = freq,
                  !.phaseIncrement = UpdateIncrement(freq, voice.sampleRate)]

VoiceSetAmplitude(voice, amp) == [voice EXCEPT !.amplitude = amp]

VoiceReset(voice) == [voice EXCEPT !.currentPhase = 0]

VoiceAdvance(voice, phase) ==
    LET next == phase + voice.phaseIncrement IN
    IF next >= TwoPi THEN next - TwoPi ELSE next

RECURSIVE VoicePhaseAfter(_, _, _)
VoicePhaseAfter(voice, phase, n) ==
    IF n = 0 THEN phase
    ELSE VoiceAdvance(voice, VoicePhaseAfter(voice, phase, n - 1))

\* voice.Generate(buffer, accumulate): the voice and the buffer afterwards.
VoiceGenerate(voice, buffer, accumulate) ==
    [voice |-> [voice EXCEPT !.currentPhase =
                    VoicePhaseAfter(voice, voice.currentPhase, Len(buffer))],
     buffer |-> [i \in 1..Len(buffer) |->
                    LET term == [amp |-> voice.amplitude,
                                 phase |-> VoicePhaseAfter(
                                     voice, voice.currentPhase, i - 1)]
                    IN IF accumulate
                       THEN [buffer[i] EXCEPT !.terms = Append(@, term)]
                       ELSE [carry |-> 0, terms |-> <<term>>]]]

\* Mutation of UpdateActiveVoiceCount: a voice counts when its frequency
\* is not negative.
RECURSIVE UpdateActiveVoiceCount_NotNegative(_, _)
UpdateActiveVoiceCount_NotNegative(freqs, i) ==
    IF i = MAX_VOICES THEN 0
    ELSE (IF freqs[i] >= 0 THEN 1 ELSE 0)
         + UpdateActiveVoiceCount_NotNegative(freqs, i + 1)

\* The count UpdateActiveVoiceCount() leaves, looping from voice i on.
RECURSIVE UpdateActiveVoiceCount(_, _)
UpdateActiveVoiceCount(freqs, i) ==
    IF i = MAX_VOICES THEN 0
    ELSE (IF freqs[i] > 0 THEN 1 ELSE 0) + UpdateActiveVoiceCount(freqs, i + 1)

\* The members SetVoiceFrequency works on.
Bank == [voices |-> voices, frequencies |-> frequencies,
         activeVoiceCount |-> activeVoiceCount]

\* Mutation of VoiceFrequencySet: the index check lets index 6 through to
\* the last voice.
VoiceFrequencySet_OffByOne(bank, voiceIndex, freq) ==
    IF voiceIndex > MAX_VOICES
    THEN bank
    ELSE LET slot == IF voiceIndex = MAX_VOICES THEN MAX_VOICES - 1
                     ELSE voiceIndex
             freqs == [bank.frequencies EXCEPT ![slot] = freq]
         IN [voices |-> [bank.voices EXCEPT ![slot] =
                            VoiceSetAmplitude(
                                VoiceSetFrequency(@, freq),
                                IF freq > 0 THEN Amp(FullAmplitude, 1)
                                ELSE Amp(0, 1))],
             frequencies |-> freqs,
             activeVoiceCount |-> UpdateActiveVoiceCount(freqs, 0)]

\* SetVoiceFrequency(voiceIndex, frequency) on the members given.
VoiceFrequencySet(bank, voiceIndex, freq) ==
    IF voiceIndex >= MAX_VOICES
    THEN bank
    ELSE LET freqs == [bank.frequencies EXCEPT ![voiceIndex] = freq] IN
         [voices |-> [bank.voices EXCEPT ![voiceIndex] =
                         VoiceSetAmplitude(
                             VoiceSetFrequency(@, freq),
                             IF freq > 0 THEN Amp(FullAmplitude, 1)
                             ELSE Amp(0, 1))],
          frequencies |-> freqs,
          activeVoiceCount |-> UpdateActiveVoiceCount(freqs, 0)]

\* SetVoiceFrequencies: SetVoiceFrequency for the voices from i on.
RECURSIVE VoiceFrequenciesSet(_, _, _)
VoiceFrequenciesSet(bank, freqs, i) ==
    IF i = MAX_VOICES THEN bank
    ELSE VoiceFrequenciesSet(VoiceFrequencySet(bank, i, freqs[i]), freqs, i + 1)

\* PolyphonicGenerator::PolyphonicGenerator(double sampleRate)
PolyphonicGenerator(rate) ==
    /\ voices = [i \in VoiceIds |->
                    VoiceSetAmplitude(VoiceSetSampleRate(VoiceDefault, rate),
                                      Amp(0, 1))]
    /\ frequencies = [i \in VoiceIds |-> 0]
    /\ globalVolume = DefaultGlobalVolume
    /\ activeVoiceCount = 0
    /\ bankCall = NoCall

BankSetSampleRate(rate) ==
    /\ voices' = [i \in VoiceIds |-> VoiceSetSampleRate(voices[i], rate)]
    /\ bankCall' = [op |-> "SetSampleRate", rate |-> rate]
    /\ UNCHANGED <<frequencies, globalVolume, activeVoiceCount>>

SetVoiceFrequency(voiceIndex, freq) ==
    LET bank == VoiceFrequencySet(Bank, voiceIndex, freq) IN
    /\ voices' = bank.voices
    /\ frequencies' = bank.frequencies
    /\ activeVoiceCount' = bank.activeVoiceCount
    /\ bankCall' = [op |-> "SetVoiceFrequency", voiceIndex |-> voiceIndex,
                    frequency |-> freq]
    /\ UNCHANGED globalVolume

SetVoiceFrequencies(freqs) ==
    LET bank == VoiceFrequenciesSet(Bank, freqs, 0) IN
    /\ voices' = bank.voices
    /\ frequencies' = bank.frequencies
    /\ activeVoiceCount' = bank.activeVoiceCount
    /\ bankCall' = [op |-> "SetVoiceFrequencies", frequencies |-> freqs]
    /\ UNCHANGED globalVolume

SetVoiceAmplitude(voiceIndex, amp) ==
    /\ IF voiceIndex >= MAX_VOICES
       THEN UNCHANGED voices
       ELSE voices' = [voices EXCEPT
                          ![voiceIndex] = VoiceSetAmplitude(@, Amp(amp, 1))]
    /\ bankCall' = [op |-> "SetVoiceAmplitude", voiceIndex |-> voiceIndex,
                    amplitude |-> amp]
    /\ UNCHANGED <<frequencies, globalVolume, activeVoiceCount>>

\* std::clamp(v, lo, hi)
Clamp(v, lo, hi) == IF v < lo THEN lo ELSE IF hi < v THEN hi ELSE v

\* Mutation of SetGlobalVolume: the volume is stored as given.
SetGlobalVolume_NoClamp(volume) ==
    /\ globalVolume' = volume
    /\ bankCall' = [op |-> "SetGlobalVolume", volume |-> volume]
    /\ UNCHANGED <<voices, frequencies, activeVoiceCount>>

SetGlobalVolume(volume) ==
    /\ globalVolume' = Clamp(volume, 0, FullAmplitude)
    /\ bankCall' = [op |-> "SetGlobalVolume", volume |-> volume]
    /\ UNCHANGED <<voices, frequencies, activeVoiceCount>>

\* Mutation of EffectiveVolume: the gain is divided by the voice count.
EffectiveVolume_Linear(volume, count) == Amp(volume, count * count)

\* effectiveVolume = globalVolume * (1.0f / std::sqrt(activeVoiceCount))
EffectiveVolume(volume, count) == Amp(volume, count)

\* The buffer as Generate's loop over the voices finds it.
StartBuffer(buffer, accumulate) ==
    [i \in 1..Len(buffer) |->
        [carry |-> IF accumulate THEN buffer[i] ELSE 0, terms |-> <<>>]]

\* Mutation of GenerateVoices: every voice generates, active or not.
RECURSIVE GenerateVoices_AllVoices(_, _, _)
GenerateVoices_AllVoices(state, effectiveVolume, i) ==
    IF i = MAX_VOICES THEN state
    ELSE LET g == VoiceGenerate(
                      VoiceSetAmplitude(state.voices[i], effectiveVolume),
                      state.buffer, TRUE)
         IN GenerateVoices_AllVoices(
                [voices |-> [state.voices EXCEPT ![i] = g.voice],
                 buffer |-> g.buffer], effectiveVolume, i + 1)

\* Mutation of GenerateVoices: each voice generates in overwrite mode.
RECURSIVE GenerateVoices_Overwrite(_, _, _)
GenerateVoices_Overwrite(state, effectiveVolume, i) ==
    IF i = MAX_VOICES THEN state
    ELSE IF frequencies[i] > 0
    THEN LET g == VoiceGenerate(
                      VoiceSetAmplitude(state.voices[i], effectiveVolume),
                      state.buffer, FALSE)
         IN GenerateVoices_Overwrite(
                [voices |-> [state.voices EXCEPT ![i] = g.voice],
                 buffer |-> g.buffer], effectiveVolume, i + 1)
    ELSE GenerateVoices_Overwrite(state, effectiveVolume, i + 1)

\* Generate's loop over the voices from i on: state is [voices, buffer].
RECURSIVE GenerateVoices(_, _, _)
GenerateVoices(state, effectiveVolume, i) ==
    IF i = MAX_VOICES THEN state
    ELSE IF frequencies[i] > 0
    THEN LET g == VoiceGenerate(
                      VoiceSetAmplitude(state.voices[i], effectiveVolume),
                      state.buffer, TRUE)
         IN GenerateVoices(
                [voices |-> [state.voices EXCEPT ![i] = g.voice],
                 buffer |-> g.buffer], effectiveVolume, i + 1)
    ELSE GenerateVoices(state, effectiveVolume, i + 1)

\* Mutation of BankGenerate: with no active voice the buffer is left as it
\* is in overwrite mode too.
BankGenerate_NoSilence(buffer, accumulate) ==
    /\ IF activeVoiceCount = 0
       THEN /\ bankCall' = [op |-> "Generate", buffer |-> buffer,
                            accumulate |-> accumulate,
                            output |-> StartBuffer(buffer, TRUE)]
            /\ UNCHANGED voices
       ELSE LET g == GenerateVoices(
                         [voices |-> voices,
                          buffer |-> StartBuffer(buffer, accumulate)],
                         EffectiveVolume(globalVolume, activeVoiceCount), 0)
            IN /\ voices' = g.voices
               /\ bankCall' = [op |-> "Generate", buffer |-> buffer,
                               accumulate |-> accumulate, output |-> g.buffer]
    /\ UNCHANGED <<frequencies, globalVolume, activeVoiceCount>>

\* PolyphonicGenerator::Generate
BankGenerate(buffer, accumulate) ==
    /\ IF activeVoiceCount = 0
       THEN /\ bankCall' = [op |-> "Generate", buffer |-> buffer,
                            accumulate |-> accumulate,
                            output |-> StartBuffer(buffer, accumulate)]
            /\ UNCHANGED voices
       ELSE LET effectiveVolume ==
                    EffectiveVolume(globalVolume, activeVoiceCount)
                g == GenerateVoices(
                         [voices |-> voices,
                          buffer |-> StartBuffer(buffer, accumulate)],
                         effectiveVolume, 0)
            IN /\ voices' = g.voices
               /\ bankCall' = [op |-> "Generate", buffer |-> buffer,
                               accumulate |-> accumulate, output |-> g.buffer]
    /\ UNCHANGED <<frequencies, globalVolume, activeVoiceCount>>

\* PolyphonicGenerator::Reset
BankReset ==
    /\ voices' = [i \in VoiceIds |-> VoiceReset(voices[i])]
    /\ bankCall' = [op |-> "Reset"]
    /\ UNCHANGED <<frequencies, globalVolume, activeVoiceCount>>

GetActiveVoiceCount == activeVoiceCount

\* The bank's user makes up to MaxBankCalls calls, counted in pc.  It
\* addresses the last voice and the index past it, and sets the first k
\* voices at once; the buffers it hands over hold 1, 0, 1, ...
MaxBankCalls == 4
MaxBankSamples == 2

VoiceIndices == {MAX_VOICES - 1, MAX_VOICES}
VoiceFrequencies == {-440, 0, 440}
\* The first k voices at frequency freq, the others disabled.
FirstVoices(k, freq) == [i \in VoiceIds |-> IF i < k THEN freq ELSE 0]
FrequencyArrays ==
    {FirstVoices(k, 440) : k \in {0, 1, 2, MAX_VOICES}}
VoiceAmplitudes == {3}
Volumes == {-2, 7, 13}
BankBuffers == {[i \in 1..n |-> i % 2] : n \in 0..MaxBankSamples}

outsideBank == <<revision, streamOpen, streamRunning, errorText, engineVars,
                 driverCalls, stream, bridge, alive, handles, op, ret, started, inCall,
                 generatorVars, firstRun, mixerVars>>

\* One more call of the bank's user.
BankCallCounted ==
    /\ pc < MaxBankCalls
    /\ pc' = pc + 1
    /\ UNCHANGED outsideBank

BankSetSampleRateAction ==
    /\ \E rate \in SampleRates : BankSetSampleRate(rate)
    /\ BankCallCounted

SetVoiceFrequencyAction ==
    /\ \E voiceIndex \in VoiceIndices, freq \in VoiceFrequencies :
           SetVoiceFrequency(voiceIndex, freq)
    /\ BankCallCounted

SetVoiceFrequenciesAction ==
    /\ \E freqs \in FrequencyArrays : SetVoiceFrequencies(freqs)
    /\ BankCallCounted

SetVoiceAmplitudeAction ==
    /\ \E voiceIndex \in VoiceIndices, amp \in VoiceAmplitudes :
           SetVoiceAmplitude(voiceIndex, amp)
    /\ BankCallCounted

SetGlobalVolumeAction ==
    /\ \E volume \in Volumes : SetGlobalVolume(volume)
    /\ BankCallCounted

BankGenerateAction ==
    /\ \E buffer \in BankBuffers, accumulate \in BOOLEAN :
           BankGenerate(buffer, accumulate)
    /\ BankCallCounted

BankResetAction ==
    /\ BankReset
    /\ BankCallCounted

InitBank ==
    /\ IdleDevice
    /\ SineWaveGenerator(DefaultSampleRate)
    /\ firstRun = NoCall
    /\ \E rate \in SampleRates : PolyphonicGenerator(rate)
    /\ NoBuffers

NextBank ==
    \/ BankSetSampleRateAction
    \/ SetVoiceFrequencyAction
    \/ SetVoiceFrequenciesAction
    \/ SetVoiceAmplitudeAction
    \/ SetGlobalVolumeAction
    \/ BankGenerateAction
    \/ BankResetAction

SpecBank == InitBank /\ [][NextBank]_vars

\* A caller that uses either the SineWaveGenerator or the voice bank, both
\* constructed for the same sample rate.
InitPhase ==
    /\ IdleDevice
    /\ \E rate \in SampleRates :
           SineWaveGenerator(rate) /\ PolyphonicGenerator(rate)
    /\ firstRun = NoCall
    /\ NoBuffers

\* Generate is called on a zeroed buffer of any length, overwriting.
GeneratorCall ==
    /\ bankCall = NoCall
    /\ \/ SetFrequencyAction
       \/ SetAmplitudeAction
       \/ SetSampleRateAction
       \/ ResetAction
       \/ /\ \E n \in 0..MaxSamples : Generate([i \in 1..n |-> 0], FALSE)
          /\ op' = "Generate" /\ ret' = "void"
          /\ UNCHANGED outsideGenerator

\* The bank's caller makes one call fewer than in SpecBank.
BankCall == op = "init" /\ pc < MaxBankCalls - 1 /\ NextBank

NextPhase ==
    \/ GeneratorCall
    \/ BankCall

SpecPhase == InitPhase /\ [][NextPhase]_vars

----------------------------------------------------------------------------
(* A user who sets the generator up and then repeats Reset followed by     *)
(* Generate over a buffer of the same length, touching no setting in       *)
(* between.  In overwrite mode the buffer's earlier contents are           *)
(* arbitrary each time; in accumulate mode they are the same each time.    *)
(* firstRun keeps the first round; pc = 4 after each later round.          *)

outsideRepeat == <<revision, streamOpen, streamRunning, errorText, engineVars,
                   driverCalls, stream, bridge, alive, handles, started, inCall, bankVars,
                   mixerVars>>

RepeatSetup ==
    /\ pc = 0
    /\ \/ SetFrequencyAction
       \/ SetAmplitudeAction
       \/ SetSampleRateAction
       \/ GenerateAction

RepeatReset ==
    /\ pc \in {0, 2, 4}
    /\ Reset
    /\ op' = "Reset" /\ ret' = "void" /\ samples' = <<>>
    /\ pc' = IF pc = 0 THEN 1 ELSE 3
    /\ UNCHANGED <<firstRun, outsideRepeat>>

RepeatFirstGenerate ==
    /\ pc = 1
    /\ \E buffer \in Buffers, accumulate \in BOOLEAN :
           /\ Generate(buffer, accumulate)
           /\ firstRun' = [op |-> "Generate", buffer |-> buffer,
                           accumulate |-> accumulate, samples |-> samples']
    /\ op' = "Generate" /\ ret' = "void"
    /\ pc' = 2
    /\ UNCHANGED outsideRepeat

RepeatGenerate ==
    /\ pc = 3
    /\ \E buffer \in Buffers :
           /\ Len(buffer) = Len(firstRun.buffer)
           /\ firstRun.accumulate => buffer = firstRun.buffer
           /\ Generate(buffer, firstRun.accumulate)
    /\ op' = "Generate" /\ ret' = "void"
    /\ pc' = 4
    /\ UNCHANGED <<firstRun, outsideRepeat>>

NextRepeat ==
    \/ RepeatSetup
    \/ RepeatReset
    \/ RepeatFirstGenerate
    \/ RepeatGenerate

SpecRepeat == InitGenerator /\ [][NextRepeat]_vars

\* One more caller: any calls, then (pc 0 to 1) a Generate call whose
\* arguments and starting phase are kept in firstRun.
RecordedSetup ==
    /\ pc = 0
    /\ \/ SetFrequencyAction
       \/ SetAmplitudeAction
       \/ SetSampleRateAction
       \/ GenerateAction
       \/ ResetAction

RecordedGenerate ==
    /\ pc = 0
    /\ \E buffer \in Buffers, accumulate \in BOOLEAN :
           /\ Generate(buffer, accumulate)
           /\ firstRun' = [op |-> "Generate", buffer |-> buffer,
                           accumulate |-> accumulate, samples |-> samples',
                           phase |-> currentPhase]
    /\ op' = "Generate" /\ ret' = "void"
    /\ pc' = 1
    /\ UNCHANGED outsideRepeat

NextRecorded ==
    \/ RecordedSetup
    \/ RecordedGenerate

SpecRecorded == InitGenerator /\ [][NextRecorded]_vars

----------------------------------------------------------------------------
(* AudioMixer: three static functions on spans of floats.  A span is a     *)
(* view [base, len] of the floats memory[base] .. memory[base + len - 1];  *)
(* two spans may be views of the same floats.  Samples and thresholds are  *)
(* in tenths, gains are whole numbers.                                     *)

MaxMemory == 3

SampleValues == {-20, 5, 15}

Gains == {-1, 2}

Thresholds == {0, 10}

\* The spans of the array, the empty one included.
Spans ==
    {[base |-> 1, len |-> 0]} \cup
    {v \in [base : 1..MaxMemory, len : 1..MaxMemory] :
        v.base + v.len - 1 <= MaxMemory}

\* The floats a span is a view of.
Cells(span) == {span.base + i : i \in 0..(span.len - 1)}

\* span[i], counting from 0.
At(mem, span, i) == mem[span.base + i]

\* The loop of Mix from index i on: output[i] += input[i] * gain.
RECURSIVE MixFrom(_, _, _, _, _)
MixFrom(mem, input, output, gain, i) ==
    IF i >= output.len THEN mem
    ELSE MixFrom([mem EXCEPT ![output.base + i] =
                      @ + At(mem, input, i) * gain],
                 input, output, gain, i + 1)

\* Mutation of MixInto: spans of different lengths are mixed over the
\* shorter length.
MixInto_NoLengthCheck(mem, input, output, gain) ==
    LET n == IF input.len < output.len THEN input.len ELSE output.len
    IN MixFrom(mem, [input EXCEPT !.len = n], [output EXCEPT !.len = n],
               gain, 0)

\* AudioMixer::Mix on the array: nothing happens when a span is empty or
\* the sizes differ.
MixInto(mem, input, output, gain) ==
    IF input.len = 0 \/ output.len = 0 \/ input.len # output.len
    THEN mem
    ELSE MixFrom(mem, input, output, gain, 0)

\* AudioMixer::Clear on the array: std::ranges::fill(buffer, 0.0f).
Cleared(mem, buffer) ==
    [c \in DOMAIN mem |-> IF c \in Cells(buffer) THEN 0 ELSE mem[c]]

\* Mutation of Limited: only the upper side is clipped.
Limited_UpperOnly(mem, buffer, threshold) ==
    [c \in DOMAIN mem |->
        IF c \in Cells(buffer) /\ mem[c] > threshold THEN threshold
        ELSE mem[c]]

\* AudioMixer::Limit on the array:
\* sample = std::clamp(sample, -threshold, threshold).
Limited(mem, buffer, threshold) ==
    [c \in DOMAIN mem |->
        IF c \in Cells(buffer) THEN Clamp(mem[c], -threshold, threshold)
        ELSE mem[c]]

Mix(input, output, gain) ==
    /\ memory' = MixInto(memory, input, output, gain)
    /\ mixerCall' = [op |-> "Mix", input |-> input, output |-> output,
                     gain |-> gain, before |-> memory, again |-> FALSE]

Clear(buffer) ==
    /\ memory' = Cleared(memory, buffer)
    /\ mixerCall' = [op |-> "Clear", buffer |-> buffer, before |-> memory,
                     again |-> FALSE]

Limit(buffer, threshold) ==
    /\ memory' = Limited(memory, buffer, threshold)
    /\ mixerCall' = [op |-> "Limit", buffer |-> buffer,
                     threshold |-> threshold, before |-> memory,
                     again |-> (/\ mixerCall.op = "Limit"
                                /\ mixerCall.buffer = buffer
                                /\ mixerCall.threshold = threshold)]

\* The caller of the mixer: one call on an array of any contents, and a
\* Limit may be applied a second time.
outsideMixer == <<revision, streamOpen, streamRunning, errorText, engineVars,
                  op, ret, driverCalls, stream, bridge, alive, handles, started, inCall,
                  generatorVars, firstRun, bankVars>>

MixAction ==
    /\ pc = 0
    /\ \E input \in Spans, output \in Spans, gain \in Gains :
           Mix(input, output, gain)
    /\ pc' = 1
    /\ UNCHANGED outsideMixer

ClearAction ==
    /\ pc = 0
    /\ \E buffer \in Spans : Clear(buffer)
    /\ pc' = 1
    /\ UNCHANGED outsideMixer

LimitAction ==
    /\ pc = 0
    /\ \E buffer \in Spans, threshold \in Thresholds : Limit(buffer, threshold)
    /\ pc' = 1
    /\ UNCHANGED outsideMixer

LimitAgainAction ==
    /\ pc = 1
    /\ mixerCall.op = "Limit"
    /\ Limit(mixerCall.buffer, mixerCall.threshold)
    /\ pc' = 2
    /\ UNCHANGED outsideMixer

InitMixer ==
    /\ IdleDevice
    /\ SineWaveGenerator(DefaultSampleRate)
    /\ firstRun = NoCall
    /\ NoVoiceBank
    /\ memory \in [1..MaxMemory -> SampleValues]
    /\ mixerCall = NoCall

NextMixer ==
    \/ MixAction
    \/ ClearAction
    \/ LimitAction
    \/ LimitAgainAction

SpecMixer == InitMixer /\ [][NextMixer]_vars

----------------------------------------------------------------------------
(* Properties of the stream engine.                                        *)

OpenOps == {"Open", "OpenDefault"}

\* The message a method records when its own precondition check fails.
GuardMessage(o) ==
    CASE o \in OpenOps -> "Device already open"
      [] o = "Start" -> "Device not open"
      [] o = "Stop" -> "Stream not running"
      [] OTHER -> ""

\* C1: Close() called in any state leaves the engine Closed: IsOpen() and
\* IsRunning() are both false and the driver stream is released, even when
\* the driver's stop step reports an error.
C1_CloseLeavesClosed ==
    op = "Close" => (~IsOpen /\ ~IsRunning /\ EngineState = "Closed")

\* C2: Open or OpenDefault called while the engine is Open or Running
\* returns false, records "Device already open" and alters nothing else:
\* lifecycle state, callback, user data, channel parameters and direction
\* flags are unchanged and the driver is not asked to open a stream.
C2_OpenWhileOpenIsNoOp ==
    [][(op' \in OpenOps /\ IsOpen) =>
          /\ ret' = "false"
          /\ lastError' = "Device already open"
          /\ driverCalls' = <<>>
          /\ UNCHANGED <<streamOpen, streamRunning, callback, userData,
                         inputParams, outputParams, hasInput, hasOutput>>]_vars

C2_Witness ==
    /\ op \in OpenOps
    /\ ret = "false"
    /\ lastError = "Device already open"
    /\ EngineState = "Running"
    /\ callback = "cbA"

\* C3: when the driver rejects the configuration during Open, Open returns
\* false, records the driver message and leaves the engine Closed with
\* nothing of the failed call retained: callback, user data, stream
\* parameters and direction flags are what they were before the call, or
\* their defaults.
C3_FailedOpenRetainsNothing ==
    [][(op' \in OpenOps /\ ~IsOpen /\ ret' = "false") =>
          /\ ~IsOpen'
          /\ lastError' = errorText'
          /\ callback' \in {callback, "null"}
          /\ userData' \in {userData, "nullptr"}
          /\ inputParams' \in {inputParams, DefaultStreamParameters}
          /\ outputParams' \in {outputParams, DefaultStreamParameters}
          /\ hasInput' => hasInput
          /\ hasOutput' => hasOutput]_vars

\* C4: on a healthy driver the sequence Open, Start, Stop, Close succeeds at
\* every step and the engine passes through Closed, Open, Running, Open,
\* Closed, with IsOpen() true after Open and false after Close.
C4_HealthyLifecycle ==
    /\ pc = 0 => EngineState = "Closed"
    /\ pc = 1 => (op \in OpenOps /\ ret = "true" /\ EngineState = "Open"
                  /\ IsOpen)
    /\ pc = 2 => (op = "Start" /\ ret = "true" /\ EngineState = "Running")
    /\ pc = 3 => (op = "Stop" /\ ret = "true" /\ EngineState = "Open")
    /\ pc = 4 => (op = "Close" /\ EngineState = "Closed" /\ ~IsOpen)

C4_Witness ==
    pc = 4 /\ op = "Close" /\ callback = "cbA" /\ EngineState = "Closed"

\* C5: Start() on a Closed engine returns false, records "Device not open",
\* leaves the state Closed and never asks the driver to start a stream.
C5_StartWhenClosed ==
    [][(op' = "Start" /\ EngineState = "Closed") =>
          /\ ret' = "false"
          /\ lastError' = "Device not open"
          /\ EngineState' = "Closed"
          /\ driverCalls' = <<>>
          /\ UNCHANGED <<streamOpen, streamRunning>>]_vars

C5_Witness ==
    /\ op = "Start"
    /\ ret = "false"
    /\ lastError = "Device not open"
    /\ EngineState = "Closed"

\* C6: Stop() on an engine that is not Running (Closed or Open) returns
\* false, records "Stream not running", leaves the lifecycle state unchanged
\* and never asks the driver to stop a stream.
C6_StopWhenNotRunning ==
    [][(op' = "Stop" /\ ~IsRunning) =>
          /\ ret' = "false"
          /\ lastError' = "Stream not running"
          /\ EngineState' = EngineState
          /\ driverCalls' = <<>>
          /\ UNCHANGED <<streamOpen, streamRunning>>]_vars

C6_Witness ==
    /\ op = "Stop"
    /\ ret = "false"
    /\ lastError = "Stream not running"
    /\ EngineState = "Open"

\* C7: Stop() on a Running engine is best-effort: whatever the driver
\* reports while stopping, the engine has left Running for Open when Stop
\* returns (IsRunning() is false).
C7_StopIsBestEffort ==
    (op = "Stop" /\ driverCalls = <<"stopStream">>) =>
        (~IsRunning /\ EngineState = "Open")

\* C8: Start() on an Open engine whose driver fails to start returns false,
\* records the driver message and leaves the engine Open (IsOpen(), not
\* IsRunning()).
C8_StartFailureStaysOpen ==
    [][(op' = "Start" /\ EngineState = "Open" /\ ret' = "false") =>
          /\ driverCalls' = <<"startStream">>
          /\ lastError' = "startStream: error"
          /\ lastError' = errorText'
          /\ EngineState' = "Open"
          /\ IsOpen' /\ ~IsRunning']_vars

C8_Witness ==
    /\ op = "Start"
    /\ ret = "false"
    /\ lastError = "startStream: error"
    /\ EngineState = "Open"

\* C9: in every reachable state IsOpen() holds exactly when the engine is
\* Open or Running and IsRunning() exactly when it is Running, so
\* IsRunning() implies IsOpen(); a freshly constructed engine reports both
\* false.
C9_QueriesReflectState ==
    /\ IsRunning => IsOpen
    /\ IsOpen <=> EngineState \in {"Open", "Running"}
    /\ IsRunning <=> EngineState = "Running"
    /\ op = "init" => (~IsOpen /\ ~IsRunning)

C9_Witness ==
    op = "Start" /\ ret = "true" /\ IsRunning /\ IsOpen

\* C10: GetLastError() is the message of the most recent failing operation:
\* every failing Open, OpenDefault, Start or Stop overwrites it with its own
\* message and no successful operation, nor Close, changes it.
C10_LastErrorTracksFailures ==
    [][/\ ret' = "false" =>
            GetLastError' = IF driverCalls' = <<>>
                            THEN GuardMessage(op')
                            ELSE errorText'
       /\ ret' # "false" => GetLastError' = GetLastError]_vars

C10_Witness ==
    /\ op = "Stop"
    /\ ret = "true"
    /\ GetLastError = "startStream: error"

\* C11: Close() is idempotent: on a Closed engine, or called again right
\* after a Close, it makes no driver stop/close request and leaves the
\* state Closed.
C11_CloseIdempotent ==
    [][(op' = "Close" /\ (op = "Close" \/ EngineState = "Closed")) =>
          /\ driverCalls' = <<>>
          /\ EngineState' = "Closed"
          /\ ret' = "void"]_vars

\* A step of the driver thread that calls the bridge.  (While the caller is
\* inside a method `op` keeps naming the bridge call made last; the
\* caller's steps move `inCall`.)
BridgeInvoked == op' = "RtAudioCallback" /\ inCall' = inCall

\* C12: for every bridge invocation with frameCount frames on a stream
\* opened by an Open with i input and o output channels in its config, the
\* user callback receives an input view of length frameCount * i and an
\* output view of length frameCount * o; a view is empty when its channel
\* count is 0.
C12_ViewLengths ==
    [][(BridgeInvoked /\ bridge'.kind = "span") =>
          /\ bridge'.input = bridge'.frames * stream.config.inputChannels
          /\ bridge'.output = bridge'.frames * stream.config.outputChannels]_vars

\* C13: a bridge invocation with no callback registered, or with a null
\* engine context, returns a nonzero stop value and does not call user code.
C13_NoCallbackStops ==
    [][(BridgeInvoked /\
        (callback = "null" \/ bridge'.context = "nullptr")) =>
          /\ bridge'.kind = "stop"
          /\ bridge'.returned # 0]_vars

C13_Witness ==
    /\ op = "RtAudioCallback" /\ streamRunning
    /\ callback = "null" /\ bridge.context = "this"
    /\ bridge.kind = "stop" /\ bridge.returned = 1

\* C14: with a callback registered, a bridge invocation calls the user
\* callback once, with the user-data pointer given to the most recent
\* successful Open, and returns the callback's integer result unchanged.
C14_CallbackPassThrough ==
    [][(BridgeInvoked /\ callback # "null" /\
        bridge'.context = "this") =>
          /\ bridge'.kind \in {"span", "raw"}
          /\ bridge'.userData = stream.userPtr
          /\ bridge'.returned = bridge'.result]_vars

C14_Witness ==
    /\ op = "RtAudioCallback" /\ bridge.kind \in {"span", "raw"}
    /\ bridge.userData = "ptrA" /\ stream.userPtr = "ptrA"
    /\ bridge.result = 2 /\ bridge.returned = 2

\* C15: the members the bridge reads (callback, user-data pointer, channel
\* counts, direction flags) are never written while the stream is running:
\* Open and OpenDefault write them before they reach the driver, Close
\* writes them after its driver calls.
C15_NoWriteWhileRunning ==
    [][(<<callback, userData, inputParams, outputParams, hasInput, hasOutput>>'
          # <<callback, userData, inputParams, outputParams, hasInput, hasOutput>>)
        => IF op' = "Close" THEN ~streamRunning' ELSE ~streamRunning]_vars

C17_AtMostOneStream ==
    [][(op' \in OpenOps /\ driverCalls' = <<"openStream">>) =>
          (~streamOpen /\ ~streamRunning)]_vars

C17_Witness ==
    /\ op \in OpenOps
    /\ driverCalls = <<"openStream">>
    /\ ret = "true"
    /\ lastError = "Device already open"

C19_IncrementConsistent ==
    phaseIncrement * sampleRate = TwoPi * frequency

\* C20: when every frequency held is at least 0 and below half the sample
\* rate, the phase accumulator is in [0, 2*pi) after every sample of every
\* Generate call, whatever SetFrequency, SetSampleRate and Reset calls come
\* in between.
C20_PhaseInRange ==
    /\ 0 <= currentPhase /\ currentPhase < TwoPi
    /\ \A i \in 1..Len(samples) :
           0 <= samples[i].phase /\ samples[i].phase < TwoPi

C20_Witness ==
    /\ op = "Generate" /\ Len(samples) >= 2
    /\ 2 * frequency < sampleRate
    /\ samples[2].phase < samples[1].phase
    /\ currentPhase > 0

StopAsked ==
    /\ op = "RtAudioCallback" /\ IsRunning
    /\ (bridge.kind = "stop" \/ bridge.result # 0)

BankStep == pc' # pc

\* The voices Generate mixes, in the order it visits them.
ActiveVoices ==
    SelectSeq([n \in 1..MAX_VOICES |-> n - 1], LAMBDA j : frequencies[j] > 0)

\* An element of Generate's output where every voice is at the crest of
\* its sine (a quarter turn), so that the element is the sum of the
\* voices' amplitudes.
AtCrest(element) ==
    /\ element.terms # <<>>
    /\ \A m \in 1..Len(element.terms) :
           /\ element.terms[m].phase = TwoPi \div 4
           /\ element.terms[m].amp = element.terms[1].amp

\* Square of the element's magnitude, times the count under the root of
\* its voices' amplitude.
PeakSquaredTimesCount(element) ==
    LET n == Len(element.terms)
        volume == element.terms[1].amp.volume
    IN n * n * volume * volume

\* C23 as stated: with k active voices of one frequency and phases reset,
\* and global volume v, the peak magnitude of the Generate output is
\* approximately v (here: its square within 2 percent of v * v), whatever
\* k is.
C23_PeakIsVolume ==
    (bankCall.op = "Generate" /\ ~bankCall.accumulate /\ activeVoiceCount >= 1)
    => \A i \in 1..Len(bankCall.output) :
           AtCrest(bankCall.output[i]) =>
               LET peak == PeakSquaredTimesCount(bankCall.output[i])
                   count == bankCall.output[i].terms[1].amp.count
                   want == count * globalVolume * globalVolume
               IN /\ 100 * (peak - want) <= 2 * want
                  /\ 100 * (want - peak) <= 2 * want

\* C23 as amended: the peak magnitude is v * sqrt(k): its square is
\* k * v * v.
C23_PeakIsVolumeTimesRootK ==
    (bankCall.op = "Generate" /\ ~bankCall.accumulate /\ activeVoiceCount >= 1)
    => \A i \in 1..Len(bankCall.output) :
           AtCrest(bankCall.output[i]) =>
               LET peak == PeakSquaredTimesCount(bankCall.output[i])
                   count == bankCall.output[i].terms[1].amp.count
               IN peak = activeVoiceCount * count * globalVolume * globalVolume

C23_Witness ==
    /\ bankCall.op = "Generate" /\ ~bankCall.accumulate
    /\ activeVoiceCount = MAX_VOICES /\ globalVolume = 7
    /\ Len(bankCall.output) = 2 /\ AtCrest(bankCall.output[2])
    /\ PeakSquaredTimesCount(bankCall.output[2]) = 36 * 49

\* C24: with zero active voices Generate leaves every buffer element as it
\* was in accumulate mode, sets every element to 0 in overwrite mode, and
\* advances no voice's phase.
C24_NoActiveVoice ==
    [][(BankStep /\ bankCall'.op = "Generate" /\ activeVoiceCount = 0) =>
          /\ Len(bankCall'.output) = Len(bankCall'.buffer)
          /\ \A i \in 1..Len(bankCall'.buffer) :
                 /\ bankCall'.output[i].terms = <<>>
                 /\ bankCall'.output[i].carry =
                        IF bankCall'.accumulate THEN bankCall'.buffer[i] ELSE 0
          /\ \A j \in VoiceIds :
                 voices'[j].currentPhase = voices[j].currentPhase]_vars

C24_Witness ==
    /\ bankCall.op = "Generate" /\ activeVoiceCount = 0
    /\ ~bankCall.accumulate /\ Len(bankCall.buffer) = 2
    /\ bankCall.buffer[1] = 1 /\ bankCall.output[1].carry = 0

\* C25: Generate clears the buffer at most once, before any voice writes,
\* and every active voice adds to it: each output element is the sum of
\* the active voices' samples, on top of nothing in overwrite mode and of
\* the element's previous value in accumulate mode.
C25_SumOfActiveVoices ==
    [][(BankStep /\ bankCall'.op = "Generate" /\ activeVoiceCount > 0) =>
          /\ Len(bankCall'.output) = Len(bankCall'.buffer)
          /\ \A i \in 1..Len(bankCall'.buffer) :
                 /\ bankCall'.output[i].carry =
                        IF bankCall'.accumulate THEN bankCall'.buffer[i] ELSE 0
                 /\ Len(bankCall'.output[i].terms) = Len(ActiveVoices)
                 /\ \A m \in 1..Len(ActiveVoices) :
                        LET voice == voices[ActiveVoices[m]] IN
                        /\ bankCall'.output[i].terms[m].phase =
                               VoicePhaseAfter(voice, voice.currentPhase, i - 1)
                        /\ bankCall'.output[i].terms[m].amp =
                               voices'[ActiveVoices[m]].amplitude]_vars

C25_Witness ==
    /\ bankCall.op = "Generate" /\ bankCall.accumulate
    /\ activeVoiceCount = MAX_VOICES /\ Len(bankCall.output) = 2
    /\ bankCall.output[1].carry = 1
    /\ Len(bankCall.output[2].terms) = MAX_VOICES
    /\ bankCall.output[2].terms[1].phase # bankCall.output[2].terms[MAX_VOICES].phase

\* C26: SetVoiceFrequency and SetVoiceAmplitude with a voice index of 6 or
\* more change no frequency, amplitude, phase, global volume or active-voice
\* count.
C26_IndexOutOfRangeIgnored ==
    [][(BankStep /\ bankCall'.op \in {"SetVoiceFrequency", "SetVoiceAmplitude"}
        /\ bankCall'.voiceIndex >= MAX_VOICES) =>
          UNCHANGED <<voices, frequencies, globalVolume, activeVoiceCount>>]_vars

C26_Witness ==
    /\ bankCall.op = "SetVoiceFrequency" /\ bankCall.voiceIndex = MAX_VOICES
    /\ bankCall.frequency = 440 /\ activeVoiceCount = 0
    /\ \A j \in VoiceIds : frequencies[j] = 0

\* C27: the global volume is always within [0, 1]; SetGlobalVolume(x) stores
\* 0 for x < 0, 1 for x > 1 and x otherwise, and no other operation changes
\* it.
C27_GlobalVolumeClamped ==
    /\ [](0 <= globalVolume /\ globalVolume <= FullAmplitude)
    /\ [][BankStep =>
            IF bankCall'.op = "SetGlobalVolume"
            THEN globalVolume' =
                     IF bankCall'.volume < 0 THEN 0
                     ELSE IF bankCall'.volume > FullAmplitude THEN FullAmplitude
                     ELSE bankCall'.volume
            ELSE globalVolume' = globalVolume]_vars

C27_Witness ==
    /\ bankCall.op = "SetGlobalVolume" /\ bankCall.volume = 13
    /\ globalVolume = FullAmplitude

\* A call of Mix that does its work: both spans non-empty, of one size.
MixApplies(call) ==
    /\ call.input.len # 0 /\ call.output.len # 0
    /\ call.input.len = call.output.len

\* What Mix promises for each element, and for its input.
MixedElementwise(call, after) ==
    /\ \A i \in 0..(call.output.len - 1) :
           At(after, call.output, i) =
               At(call.before, call.output, i)
                   + At(call.before, call.input, i) * call.gain
    /\ \A c \in Cells(call.input) : after[c] = call.before[c]

\* C28 as stated: Mix(input, output, gain) leaves output unchanged when the
\* lengths differ or either span is empty; otherwise every element satisfies
\* output'[i] = output[i] + input[i] * gain and input is not modified.
C28_Mix ==
    mixerCall.op = "Mix" =>
        IF MixApplies(mixerCall)
        THEN MixedElementwise(mixerCall, memory)
        ELSE \A c \in Cells(mixerCall.output) : memory[c] = mixerCall.before[c]

\* C28 as amended: Mix(input, output, gain) leaves output unchanged when the
\* lengths differ or either span is empty; otherwise, when input and output
\* share no element, every element satisfies
\* output'[i] = output[i] + input[i] * gain and input is not modified.
C28_MixOfDisjointSpans ==
    mixerCall.op = "Mix" =>
        IF MixApplies(mixerCall)
        THEN Cells(mixerCall.input) \cap Cells(mixerCall.output) = {}
                 => MixedElementwise(mixerCall, memory)
        ELSE \A c \in Cells(mixerCall.output) : memory[c] = mixerCall.before[c]

C28_Witness ==
    /\ mixerCall.op = "Mix" /\ mixerCall.gain = 2
    /\ mixerCall.input = [base |-> 1, len |-> 1]
    /\ mixerCall.output = [base |-> MaxMemory, len |-> 1]
    /\ mixerCall.before[1] = 15 /\ mixerCall.before[MaxMemory] = -20
    /\ memory[MaxMemory] = 10 /\ memory[1] = 15

\* C29: Limit(buffer, threshold) with threshold >= 0 leaves every sample of
\* the buffer in [-threshold, threshold], leaves samples already in that
\* range unchanged, and applied a second time changes nothing; Clear sets
\* every sample of the buffer to 0.
C29_LimitAndClear ==
    [][(pc' # pc) =>
          /\ mixerCall'.op = "Limit" =>
                 /\ \A c \in Cells(mixerCall'.buffer) :
                        /\ -mixerCall'.threshold <= memory'[c]
                        /\ memory'[c] <= mixerCall'.threshold
                        /\ (/\ -mixerCall'.threshold <= memory[c]
                            /\ memory[c] <= mixerCall'.threshold)
                               => memory'[c] = memory[c]
                 /\ mixerCall'.again => memory' = memory
          /\ mixerCall'.op = "Clear" =>
                 \A c \in Cells(mixerCall'.buffer) : memory'[c] = 0]_vars

C29_Witness ==
    /\ mixerCall.op = "Limit" /\ mixerCall.again
    /\ mixerCall.threshold = 10 /\ mixerCall.buffer.len = MaxMemory
    /\ \E c \in Cells(mixerCall.buffer) : memory[c] = -10
    /\ \E c \in Cells(mixerCall.buffer) : memory[c] = 5
    /\ \E c \in Cells(mixerCall.buffer) : memory[c] = 10

C34_DirectionsMatchConfig ==
    (op = "Open" /\ driverCalls = <<"openStream">>) =>
        /\ stream.inputChannels = stream.config.inputChannels
        /\ stream.outputChannels = stream.config.outputChannels

\* C35: a moved-from AudioDevice is safe to use and destroy: Close, IsOpen,
\* IsRunning and the destructor on it never go through a null pImpl, and
\* once every object is destroyed the stream has been released.
C35_MovedFromSafe ==
    /\ ret \notin NullDereference
    /\ (\A x \in Handles : handles[x].life \in {"none", "destroyed"})
           => (~streamOpen /\ ~streamRunning)

\* C36: Start() on an engine that is Running leaves it Running with the
\* same stream, callback and user data, the stream neither restarted nor
\* reopened, and returns true exactly when the engine is Running on return.
C36_StartWhileRunning ==
    [][(op' = "Start" /\ EngineState = "Running") =>
          /\ EngineState' = "Running"
          /\ UNCHANGED <<streamOpen, streamRunning, callback, userData>>
          /\ "openStream" \notin {driverCalls'[i] : i \in DOMAIN driverCalls'}
          /\ (ret' = "true") <=> IsRunning']_vars

\* The place of voice i among the voices Generate mixes.
TermOf(i) == CHOOSE m \in 1..Len(ActiveVoices) : ActiveVoices[m] = i

\* C32: SetVoiceAmplitude(i, a) with i < 6 sets voice i's amplitude to a,
\* and the next Generate emits the contribution of voice i (when it is
\* active) at that amplitude.
C32_VoiceAmplitudeHeard ==
    [][(BankStep /\ bankCall.op = "SetVoiceAmplitude"
        /\ bankCall.voiceIndex < MAX_VOICES) =>
          /\ voices[bankCall.voiceIndex].amplitude = Amp(bankCall.amplitude, 1)
          /\ (bankCall'.op = "Generate" /\ frequencies[bankCall.voiceIndex] > 0)
                 => \A n \in 1..Len(bankCall'.output) :
                        bankCall'.output[n].terms[TermOf(bankCall.voiceIndex)].amp
                            = Amp(bankCall.amplitude, 1)]_vars

\* C37: the voice bank's Generate advances the phase of active voices only:
\* a voice whose frequency is 0 or less keeps its phase, and the phase of
\* every active voice advances by the buffer length times its increment,
\* modulo 2*pi.
C37_OnlyActiveVoicesAdvance ==
    [][(BankStep /\ bankCall'.op = "Generate") =>
          \A j \in VoiceIds :
              voices'[j].currentPhase =
                  IF frequencies[j] > 0
                  THEN (voices[j].currentPhase
                          + Len(bankCall'.buffer) * voices[j].phaseIncrement)
                       % TwoPi
                  ELSE voices[j].currentPhase]_vars

C37_Witness ==
    /\ bankCall.op = "Generate" /\ Len(bankCall.buffer) = 2
    /\ activeVoiceCount = MAX_VOICES - 1
    /\ frequencies[MAX_VOICES - 1] <= 0
    /\ voices[MAX_VOICES - 1].currentPhase # 0
    /\ voices[0].currentPhase # voices[MAX_VOICES - 1].currentPhase
    /\ voices[0].currentPhase = voices[1].currentPhase

\* C38: phase continuity: on the SineWaveGenerator and on every voice of the
\* bank a phase accumulator changes only in Generate, or in Reset, which
\* sets it to zero; SetFrequency, SetSampleRate, SetAmplitude,
\* SetVoiceFrequency, SetVoiceFrequencies, SetVoiceAmplitude,
\* SetGlobalVolume and the bank's SetSampleRate leave every phase alone.
C38_PhaseContinuity ==
    [][/\ currentPhase' # currentPhase =>
              \/ op' = "Generate"
              \/ op' = "Reset" /\ currentPhase' = 0
       /\ \A j \in VoiceIds :
              voices'[j].currentPhase # voices[j].currentPhase =>
                  \/ bankCall'.op = "Generate"
                  \/ bankCall'.op = "Reset" /\ voices'[j].currentPhase = 0
       /\ (op' = "Reset" /\ op # "Reset") => currentPhase' = 0
       /\ (BankStep /\ bankCall'.op = "Reset") =>
              \A j \in VoiceIds : voices'[j].currentPhase = 0]_vars

C38_Witness ==
    /\ bankCall.op = "SetVoiceFrequency"
    /\ bankCall.voiceIndex = MAX_VOICES - 1 /\ bankCall.frequency = 0
    /\ voices[MAX_VOICES - 1].frequency = 0
    /\ voices[MAX_VOICES - 1].currentPhase # 0

\* C30: the user callback is called only while the engine is Running: no
\* bridge invocation reaches it before Start has succeeded, after Stop has
\* returned true, or after Close has returned, until Start succeeds again.
\* Start has succeeded when it has returned true, or when its
\* startStream() has succeeded and it is about to return true: the driver
\* may deliver the first buffer before Start is back in the caller.
C30_CallbackOnlyWhileStarted ==
    [][(BridgeInvoked /\ bridge'.kind # "stop") =>
          \/ started
          \/ /\ inCall.method = "Start" /\ inCall.at = "return"
             /\ ~inCall.failed]_vars

\* C22: after any sequence of voice-bank operations GetActiveVoiceCount()
\* is the number of voices whose stored frequency is strictly positive, and
\* lies between 0 and 6.
C22_ActiveVoiceCount ==
    /\ GetActiveVoiceCount = Cardinality({i \in VoiceIds : frequencies[i] > 0})
    /\ GetActiveVoiceCount \in 0..MAX_VOICES

C22_Witness ==
    /\ GetActiveVoiceCount = 2 /\ frequencies[MAX_VOICES - 1] < 0
    /\ bankCall.op = "SetVoiceFrequency"

====
